---- MODULE Spec2Model ----
(***************************************************************************)
(* Session lifecycle and multi-client synchronisation core of              *)
(* claude-agent-kit: Session (server/session.ts), SessionManager           *)
(* (server/session-manager.ts) and WebSocketHandler                        *)
(* (websocket/websocket-handler.ts), as a state machine.                   *)
(*                                                                         *)
(* The JavaScript event loop is modelled by one TLA+ step per macrotask    *)
(* (an inbound call, a stream chunk, a store answer, a timer) and a FIFO   *)
(* queue of microtasks (promise continuations) that runs to exhaustion     *)
(* before the next macrotask.                                              *)
(***************************************************************************)
EXTENDS Integers, Sequences, FiniteSets, TLC

VARIABLES
  sessionId,          \* Session.sessionId, per Session ("none" = null)
  options,            \* Session.options
  summary,            \* Session.summary
  error,              \* Session.error
  queryPromise,       \* Session.queryPromise: the call whose turn it is, 0 = null
  loadingPromise,     \* Session.loadingPromise: the id being loaded, "none" = null
  abortController,    \* Session.abortController: the call that created it, 0 = undefined
  aborted,            \* the controllers on which abort() was signalled
  busyState,          \* Session.busyState
  loadingState,       \* Session.loadingState
  messageList,        \* Session.messageList
  lastResultMessage,  \* Session.lastResultMessage
  isLoaded,           \* Session.isLoaded
  clients,            \* Session.clients
  pendingStateUpdate, \* Session.pendingStateUpdate
  debounceTimer,      \* Session.debounceTimer (armed or not)
  lastModifiedTime,   \* Session.lastModifiedTime (a logical clock value)
  numSessions,        \* SessionManager.sessionsList: Sessions 1..numSessions exist
  clientSessions,     \* SessionManager.clientSessions (WeakMap), 0 = no entry
  clientSessionId,    \* ISessionClient.sessionId ("none" = undefined)
  wsState,            \* WebSocketHandler.clients: "new", "open" or "closed"
  received,           \* per client, the events the last step gave receiveSessionMessage
  wsErrors,           \* per client, the error envelopes the last step sent it
  managerCalls,       \* the SessionManager methods called in the last step, in order
  calls,              \* the send / sendToolResult calls: position, arguments, turn
  microtasks,         \* promise continuations that are ready to run, in order
  loadReads,          \* per session id, the sdkClient.loadMessages calls of the last step
  resumeLog,          \* history: per Session, the last two direct resumeFrom calls
  appendLog,          \* history: the turn of every message appended during a turn
  lastOp,             \* history: the last operation performed and what it did
  now                 \* the clock behind Date.now()

vars == << sessionId, options, summary, error, queryPromise, loadingPromise,
           abortController, aborted, busyState, loadingState, messageList,
           lastResultMessage, isLoaded, clients, pendingStateUpdate,
           debounceTimer, lastModifiedTime, numSessions, clientSessions,
           clientSessionId, wsState, received, wsErrors, managerCalls, calls,
           microtasks,
           loadReads, resumeLog, appendLog, lastOp, now >>

(***************************************************************************)
(* Bounds of the model.                                                    *)
(***************************************************************************)
MaxSessions == 2
MaxCalls == 3
MaxStreamLen == 1
MaxClock == 2

\* one slot more than may exist: a step that would create Session MaxSessions + 1
\* is cut off by the guard of its action
Sessions == 1..(MaxSessions + 1)
CallIds == 1..MaxCalls
Clients == {"c1", "c2"}
SessionIds == {"s-1", "s-2"}
NoId == "none"

(***************************************************************************)
(* Text.  A text is a sequence of tokens: the characters of what a user    *)
(* typed, or one token for a fixed phrase produced by the program or the   *)
(* tool layer.  "zhi","xing" / "yun","xing" / "ju","jue" stand for the     *)
(* characters of the Chinese words for execute / run / reject.             *)
(***************************************************************************)
RECURSIVE TrimStart(_)
TrimStart(t) == IF t = <<>> THEN t
                ELSE IF Head(t) = " " THEN TrimStart(Tail(t)) ELSE t

RECURSIVE TrimEnd(_)
TrimEnd(t) == IF t = <<>> THEN t
              ELSE IF t[Len(t)] = " " THEN TrimEnd(SubSeq(t, 1, Len(t) - 1)) ELSE t

Trim(t) == TrimEnd(TrimStart(t))

LowerChar(c) ==
  CASE c = "E" -> "e" [] c = "X" -> "x" [] c = "C" -> "c" [] c = "U" -> "u"
    [] c = "T" -> "t" [] c = "R" -> "r" [] c = "N" -> "n" [] OTHER -> c

ToLowerCase(t) == [i \in 1..Len(t) |-> LowerChar(t[i])]

ApprovedText == << "User approved the plan" >>
ExitPlaceholder == << "Exit plan mode?" >>
AskPlaceholder == << "Answer questions?" >>
DeclinedText == << "User declined" >>

(***************************************************************************)
(* Protocol messages (SDKMessage) and content blocks.                      *)
(***************************************************************************)
Block(type, id, name, text, isError) ==
  [type |-> type, id |-> id, name |-> name, text |-> text, is_error |-> isError]

TextBlock(text) == Block("text", "", "", text, FALSE)
ToolUseBlock(id, name) == Block("tool_use", id, name, <<>>, FALSE)
ToolResultBlock(id, text, isError) == Block("tool_result", id, "", text, isError)

\* cwd: the directory recorded in the message as one path segment, "" when the
\* message has none; uuid: 0 for a message of the agent, the call number for a message built by
\* send / sendToolResult (randomUUID()); timestamp: -1 when the message has none
Msg(type, subtype, sid, content, isError, cwd, uuid) ==
  [type |-> type, subtype |-> subtype, session_id |-> sid, content |-> content,
   is_error |-> isError, cwd |-> cwd, uuid |-> uuid, timestamp |-> -1]

NoMsg == Msg("none", "", "", <<>>, FALSE, "", 0)

SystemInit(sid, cwd) == Msg("system", "init", sid, <<>>, FALSE, cwd, 0)
AssistantText(sid) == Msg("assistant", "", sid, << TextBlock(<< "ok" >>) >>, FALSE, "", 0)
AssistantToolUse(sid, id, name) ==
  Msg("assistant", "", sid, << ToolUseBlock(id, name) >>, FALSE, "", 0)
UserToolResult(sid, id, text, isError) ==
  Msg("user", "", sid, << ToolResultBlock(id, text, isError) >>, FALSE, "", 0)
ResultMsg(sid, isError) == Msg("result", "", sid, <<>>, isError, "", 0)

\* buildUserMessageContent(prompt, undefined): one text block holding the prompt
BuildUserMessageContent(prompt) == << TextBlock(prompt) >>

(***************************************************************************)
(* Pending tool-approval detection.                                        *)
(***************************************************************************)
ExtractToolUseBlocks(message) ==
  IF message.type # "assistant" THEN <<>>
  ELSE SelectSeq(message.content,
                 LAMBDA b : b.type = "tool_use" /\ b.id # "" /\ b.name # "")

\* the first matching tool_result block of a user message decides
MessageHasToolResult(message, toolUseId) ==
  IF message.type # "user" THEN [found |-> FALSE, approved |-> FALSE]
  ELSE LET hits == SelectSeq(message.content,
                     LAMBDA b : b.type = "tool_result" /\ b.id = toolUseId)
       IN IF hits = <<>> THEN [found |-> FALSE, approved |-> FALSE]
          ELSE [found |-> TRUE, approved |-> ~ hits[1].is_error]

ExitToolOf(message) ==
  SelectSeq(ExtractToolUseBlocks(message), LAMBDA b : b.name = "ExitPlanMode")

\* "" stands for null
FindLatestPendingExitPlanModeToolUseId(messages) ==
  LET carriers == { i \in 1..Len(messages) : ExitToolOf(messages[i]) # <<>> }
  IN IF carriers = {} THEN ""
     ELSE LET i == CHOOSE x \in carriers : \A y \in carriers : y <= x
              exitTool == ExitToolOf(messages[i])[1]
              answers == { j \in (i + 1)..Len(messages) :
                             MessageHasToolResult(messages[j], exitTool.id).found }
          IN IF answers = {} THEN exitTool.id
             ELSE LET j == CHOOSE x \in answers : \A y \in answers : x <= y
                  IN IF MessageHasToolResult(messages[j], exitTool.id).approved
                     THEN "" ELSE exitTool.id

\* variant of IsAffirmation that compares the prompt as typed
IsAffirmationAsTyped(prompt) ==
  \/ prompt = << "zhi", "xing" >>
  \/ prompt = << "yun", "xing" >>
  \/ prompt = << "e", "x", "e", "c", "u", "t", "e" >>
  \/ prompt = << "r", "u", "n" >>

IsAffirmation(prompt) ==
  LET normalizedPrompt == Trim(prompt)
  IN \/ normalizedPrompt = << "zhi", "xing" >>
     \/ normalizedPrompt = << "yun", "xing" >>
     \/ ToLowerCase(normalizedPrompt) = << "e", "x", "e", "c", "u", "t", "e" >>
     \/ ToLowerCase(normalizedPrompt) = << "r", "u", "n" >>

(***************************************************************************)
(* Options (SessionSDKOptions).  Three fields stand for the option bag:    *)
(* cwd, allowedTools (a field with a default), model (a field without) and *)
(* resume (the field the turn start overwrites).                           *)
(* A value is a text; AbsentV says the key is missing, UndefinedV that the *)
(* key is present with the value undefined.  A path is a sequence of       *)
(* segments.                                                               *)
(***************************************************************************)
AbsentV == << "#absent" >>
UndefinedV == << "#undefined" >>
DefaultTools == << "#default-tools" >>
OptionKeys == {"cwd", "allowedTools", "model", "resume"}
NoOptions == [k \in OptionKeys |-> AbsentV]

IsMissing(v) == v = AbsentV \/ v = UndefinedV

\* { ...a, ...b }
Spread(a, b) == [k \in OptionKeys |-> IF b[k] # AbsentV THEN b[k] ELSE a[k]]

NormalizeWorkspacePath(value) ==
  IF IsMissing(value) THEN UndefinedV
  ELSE IF Trim(value) = <<>> THEN UndefinedV ELSE Trim(value)

\* the directories of the file system, and process.env.WORKSPACES_DIR
ExistingDirs == { << "/a" >>, << "/ws", "/b" >> }
WorkspacesDir == << "/ws" >>

IsExistingDirectory(candidate) == candidate \in ExistingDirs

ResolveExistingWorkspaceCwd(cwd) ==
  IF IsExistingDirectory(cwd) THEN cwd
  ELSE LET candidate == WorkspacesDir \o << cwd[Len(cwd)] >>
       IN IF IsExistingDirectory(candidate) THEN candidate ELSE cwd

CreateDefaultOptions(workspacePath) ==
  LET cwd == NormalizeWorkspacePath(workspacePath)
  IN [cwd |-> IF cwd # UndefinedV THEN cwd ELSE AbsentV,
      allowedTools |-> DefaultTools,
      model |-> AbsentV,
      resume |-> AbsentV]

(***************************************************************************)
(* Outbound events and state updates.                                      *)
(***************************************************************************)
StateKeys == {"isBusy", "isLoading", "options"}
NoUpdate == [keys |-> {}, isBusy |-> FALSE, isLoading |-> FALSE, options |-> NoOptions]
BusyUpdate(b) == [NoUpdate EXCEPT !.keys = {"isBusy"}, !.isBusy = b]
LoadingUpdate(b) == [NoUpdate EXCEPT !.keys = {"isLoading"}, !.isLoading = b]
OptionsUpdate(o) == [NoUpdate EXCEPT !.keys = {"options"}, !.options = o]

\* { ...pending, ...update }
MergeUpdate(p, u) ==
  [keys |-> p.keys \cup u.keys,
   isBusy |-> IF "isBusy" \in u.keys THEN u.isBusy ELSE p.isBusy,
   isLoading |-> IF "isLoading" \in u.keys THEN u.isLoading ELSE p.isLoading,
   options |-> IF "options" \in u.keys THEN u.options ELSE p.options]

\* session: the Session object that sent the event (the wire carries sessionId)
Event(type, s, sid, message, messages, sessionState) ==
  [type |-> type, session |-> s, sessionId |-> sid, message |-> message,
   messages |-> messages, sessionState |-> sessionState]

(***************************************************************************)
(* The program state as one record, so that the operations below compose   *)
(* as the method calls of the source do.                                   *)
(***************************************************************************)
\* the state a step starts from: the variables, with the observations of the
\* step before (events, error envelopes, store reads) cleared
World ==
  [sessionId |-> sessionId, options |-> options, summary |-> summary,
   error |-> error, queryPromise |-> queryPromise,
   loadingPromise |-> loadingPromise, abortController |-> abortController,
   aborted |-> aborted, busyState |-> busyState, loadingState |-> loadingState,
   messageList |-> messageList, lastResultMessage |-> lastResultMessage,
   isLoaded |-> isLoaded, clients |-> clients,
   pendingStateUpdate |-> pendingStateUpdate, debounceTimer |-> debounceTimer,
   lastModifiedTime |-> lastModifiedTime, numSessions |-> numSessions,
   clientSessions |-> clientSessions, clientSessionId |-> clientSessionId,
   wsState |-> wsState,
   received |-> [c \in Clients |-> <<>>],
   wsErrors |-> [c \in Clients |-> <<>>],
   managerCalls |-> <<>>,
   calls |-> calls, microtasks |-> microtasks,
   loadReads |-> [sid \in SessionIds |-> 0],
   resumeLog |-> resumeLog, appendLog |-> appendLog, lastOp |-> lastOp, now |-> now]

Commit(w) ==
  /\ sessionId' = w.sessionId
  /\ options' = w.options
  /\ summary' = w.summary
  /\ error' = w.error
  /\ queryPromise' = w.queryPromise
  /\ loadingPromise' = w.loadingPromise
  /\ abortController' = w.abortController
  /\ aborted' = w.aborted
  /\ busyState' = w.busyState
  /\ loadingState' = w.loadingState
  /\ messageList' = w.messageList
  /\ lastResultMessage' = w.lastResultMessage
  /\ isLoaded' = w.isLoaded
  /\ clients' = w.clients
  /\ pendingStateUpdate' = w.pendingStateUpdate
  /\ debounceTimer' = w.debounceTimer
  /\ lastModifiedTime' = w.lastModifiedTime
  /\ numSessions' = w.numSessions
  /\ clientSessions' = w.clientSessions
  /\ clientSessionId' = w.clientSessionId
  /\ wsState' = w.wsState
  /\ received' = w.received
  /\ wsErrors' = w.wsErrors
  /\ managerCalls' = w.managerCalls
  /\ calls' = w.calls
  /\ microtasks' = w.microtasks
  /\ loadReads' = w.loadReads
  /\ resumeLog' = w.resumeLog
  /\ appendLog' = w.appendLog
  /\ lastOp' = w.lastOp
  /\ now' = w.now

\* an inbound frame: json tells whether JSON.parse accepts it, the other
\* fields are those of the parsed message
Envelope(type, rawSessionId, content) ==
  [json |-> TRUE, type |-> type, sessionId |-> rawSessionId, content |-> content,
   toolUseId |-> <<>>, isError |-> FALSE, newConversation |-> FALSE,
   options |-> NoOptions]

\* args, before: the options a setSDKOptions call was given and the options
\* the Session had when it was called; frame: the frame onMessage was given
Op(name, s, c, k, id) ==
  [op |-> name, s |-> s, c |-> c, k |-> k, id |-> id,
   args |-> NoOptions, before |-> NoOptions, frame |-> Envelope("", <<>>, <<>>)]
Did(w, name, s, c, k, id) == [w EXCEPT !.lastOp = Op(name, s, c, k, id)]

\* history: the SessionManager method of this name was called for the client,
\* whose sessionId had this value at the call
Invoked(w, name, client) ==
  [w EXCEPT !.managerCalls =
     Append(@, [op |-> name, c |-> client, sessionId |-> w.clientSessionId[client]])]

(***************************************************************************)
(* Session: notifications and state flags.                                 *)
(***************************************************************************)
\* variant of NotifyClients that sends to every client
NotifyEveryClient(w, s, event) ==
  [w EXCEPT !.received = [c \in Clients |-> Append(@[c], event)]]

NotifyClients(w, s, event) ==
  [w EXCEPT !.received =
     [c \in Clients |-> IF c \in w.clients[s] THEN Append(@[c], event) ELSE @[c]]]

EmitSessionStateChange(w, s, update) ==
  IF update.keys = {} THEN w
  ELSE [w EXCEPT !.pendingStateUpdate[s] = MergeUpdate(@, update),
                 !.debounceTimer[s] = TRUE]

SetBusyState(w, s, state) ==
  IF w.busyState[s] = state THEN w
  ELSE EmitSessionStateChange([w EXCEPT !.busyState[s] = state], s, BusyUpdate(state))

SetLoadingState(w, s, state) ==
  IF w.loadingState[s] = state THEN w
  ELSE EmitSessionStateChange([w EXCEPT !.loadingState[s] = state], s,
                              LoadingUpdate(state))

BuildEffectiveOptions(w, s) ==
  Spread(CreateDefaultOptions(w.options[s].cwd), w.options[s])

\* variant of SessionSetSDKOptions that skips keys given as undefined
SessionSetSDKOptionsDefined(w, s, opts) ==
  LET given == [k \in OptionKeys |-> IF opts[k] = UndefinedV THEN AbsentV ELSE opts[k]]
      hasExplicitCwd == given.cwd # AbsentV
      trimmedCwd == IF hasExplicitCwd THEN NormalizeWorkspacePath(given.cwd)
                    ELSE UndefinedV
      normalizedCwd == IF trimmedCwd # UndefinedV
                       THEN ResolveExistingWorkspaceCwd(trimmedCwd) ELSE UndefinedV
      normalized == IF hasExplicitCwd THEN [given EXCEPT !.cwd = normalizedCwd]
                    ELSE given
      baseOptions == CreateDefaultOptions(IF hasExplicitCwd THEN normalizedCwd
                                          ELSE w.options[s].cwd)
      merged == Spread(Spread(baseOptions, w.options[s]), normalized)
      nextOptions == IF hasExplicitCwd /\ normalizedCwd = UndefinedV
                     THEN [merged EXCEPT !.cwd = AbsentV] ELSE merged
      w1 == [w EXCEPT !.options[s] = nextOptions]
  IN EmitSessionStateChange(w1, s, OptionsUpdate(BuildEffectiveOptions(w1, s)))

SessionSetSDKOptions(w, s, opts) ==
  LET hasExplicitCwd == opts.cwd # AbsentV
      trimmedCwd == IF hasExplicitCwd THEN NormalizeWorkspacePath(opts.cwd)
                    ELSE UndefinedV
      normalizedCwd == IF trimmedCwd # UndefinedV
                       THEN ResolveExistingWorkspaceCwd(trimmedCwd) ELSE UndefinedV
      normalized == IF hasExplicitCwd THEN [opts EXCEPT !.cwd = normalizedCwd]
                    ELSE opts
      baseOptions == CreateDefaultOptions(IF hasExplicitCwd THEN normalizedCwd
                                          ELSE w.options[s].cwd)
      merged == Spread(Spread(baseOptions, w.options[s]), normalized)
      nextOptions == IF hasExplicitCwd /\ normalizedCwd = UndefinedV
                     THEN [merged EXCEPT !.cwd = AbsentV] ELSE merged
      w1 == [w EXCEPT !.options[s] = nextOptions]
  IN EmitSessionStateChange(w1, s, OptionsUpdate(BuildEffectiveOptions(w1, s)))

\* the cwd of the first message that has one; UndefinedV when there is none
FindWorkspacePathFromMessages(messages) ==
  LET having == { i \in 1..Len(messages) : messages[i].cwd # "" }
  IN IF having = {} THEN UndefinedV
     ELSE << messages[CHOOSE i \in having : \A j \in having : i <= j].cwd >>

SetMessages(w, s, messages) ==
  LET w1 == [w EXCEPT !.messageList[s] = messages]
      detectedWorkspace == FindWorkspacePathFromMessages(messages)
      w2 == IF IsMissing(w1.options[s].cwd) /\ detectedWorkspace # UndefinedV
            THEN SessionSetSDKOptions(w1, s,
                   [NoOptions EXCEPT !.cwd = detectedWorkspace])
            ELSE w1
  IN NotifyClients(w2, s,
       Event("messages_updated", s, w2.sessionId[s], NoMsg, messages, NoUpdate))

SyncClientSessionIds(w, s) ==
  [w EXCEPT !.clientSessionId =
     [c \in Clients |-> IF c \in w.clients[s] THEN w.sessionId[s] ELSE @[c]]]

\* variant of UpdateSessionId that keeps the id the Session has
UpdateSessionIdIgnored(w, s, sid) == w

UpdateSessionId(w, s, sid) ==
  IF w.sessionId[s] = sid THEN w
  ELSE SyncClientSessionIds([w EXCEPT !.sessionId[s] = sid], s)

GetSessionStateSnapshot(w, s) ==
  [keys |-> StateKeys, isBusy |-> w.busyState[s], isLoading |-> w.loadingState[s],
   options |-> BuildEffectiveOptions(w, s)]

\* variant of SessionSubscribe without the clients.has test
SessionSubscribeAgain(w, s, client) ==
  LET w1 == [w EXCEPT !.clients[s] = @ \cup {client},
                      !.clientSessionId[client] = w.sessionId[s]]
      w2 == [w1 EXCEPT !.received[client] =
               Append(@, Event("session_state_changed", s, w1.sessionId[s],
                               NoMsg, <<>>, GetSessionStateSnapshot(w1, s)))]
  IN IF w2.isLoaded[s]
     THEN [w2 EXCEPT !.received[client] =
             Append(@, Event("messages_updated", s, w2.sessionId[s], NoMsg,
                             w2.messageList[s], NoUpdate))]
     ELSE w2

SessionSubscribe(w, s, client) ==
  IF client \in w.clients[s] THEN w
  ELSE LET w1 == [w EXCEPT !.clients[s] = @ \cup {client},
                           !.clientSessionId[client] = w.sessionId[s]]
           w2 == [w1 EXCEPT !.received[client] =
                    Append(@, Event("session_state_changed", s, w1.sessionId[s],
                                    NoMsg, <<>>, GetSessionStateSnapshot(w1, s)))]
       IN IF w2.isLoaded[s]
          THEN [w2 EXCEPT !.received[client] =
                  Append(@, Event("messages_updated", s, w2.sessionId[s], NoMsg,
                                  w2.messageList[s], NoUpdate))]
          ELSE w2

SessionUnsubscribe(w, s, client) == [w EXCEPT !.clients[s] = @ \ {client}]

HasClient(w, s, client) == client \in w.clients[s]

\* variant of AddNewMessage that pushes without notifying
AddNewMessageUnannounced(w, s, message) ==
  [w EXCEPT !.messageList[s] = Append(@, message)]

AddNewMessage(w, s, message) ==
  NotifyClients([w EXCEPT !.messageList[s] = Append(@, message)], s,
    Event("message_added", s, w.sessionId[s], message, <<>>, NoUpdate))

\* the debounce timer's callback
FlushStateChange(w, s) ==
  LET w1 == IF w.pendingStateUpdate[s].keys # {}
            THEN NotifyClients(w, s,
                   Event("session_state_changed", s, w.sessionId[s], NoMsg, <<>>,
                         w.pendingStateUpdate[s]))
            ELSE w
  IN [w1 EXCEPT !.pendingStateUpdate[s] = NoUpdate, !.debounceTimer[s] = FALSE]

\* variant of SessionInterrupt that only aborts
SessionInterruptAbortOnly(w, s) ==
  IF w.abortController[s] # 0
  THEN [w EXCEPT !.aborted = @ \cup {w.abortController[s]}] ELSE w

SessionInterrupt(w, s) ==
  SetBusyState(
    IF w.abortController[s] # 0
    THEN [w EXCEPT !.aborted = @ \cup {w.abortController[s]}] ELSE w,
    s, FALSE)

(***************************************************************************)
(* Session: turns.  A call of send / sendToolResult is a process:          *)
(*   "unused"     not yet made                                             *)
(*   "awaitQuery" suspended at `await this.queryPromise` of call awaiting  *)
(*   "ready"      that promise has settled, continuation queued (awaiting  *)
(*                keeps the call it waited for)                            *)
(*   "streaming"  its turn is in flight (queryStream called, not finished) *)
(*   "tail"       its turn has finished, `await this.queryPromise` of      *)
(*                startQueryWithUserMessage is queued                      *)
(*   "resolved" / "rejected"                                               *)
(***************************************************************************)
NoCall ==
  [s |-> 0, kind |-> "none", prompt |-> <<>>, toolUseId |-> <<>>,
   content |-> <<>>, isError |-> FALSE, viaShim |-> FALSE, pc |-> "unused",
   awaiting |-> 0, waiters |-> <<>>, userMessage |-> NoMsg, resume |-> NoId,
   queryOptions |-> NoOptions, yielded |-> 0, pendingAtStart |-> ""]

ExitError == "Claude Code process exited with code 1"
OtherError == "stream failed"
LoadError == "load failed"
NoError == "none"

\* suspend call k at `await this.queryPromise`
AwaitQueryPromise(w, s, k) ==
  LET p == w.queryPromise[s]
  IN [w EXCEPT !.calls[k].pc = "awaitQuery",
               !.calls[k].awaiting = p,
               !.calls[p].waiters = Append(@, k)]

StartQueryWithUserMessage(w, s, k, userMessage, summaryText) ==
  LET w1 == AddNewMessage([w EXCEPT !.abortController[s] = k], s, userMessage)
      w2 == [w1 EXCEPT !.summary[s] =
                          IF IsMissing(@) /\ ~ IsMissing(summaryText)
                             /\ summaryText # <<>>
                          THEN summaryText ELSE @,
                       !.lastModifiedTime[s] = w.now,
                       !.appendLog = Append(@, k)]
      w3 == [SetBusyState(w2, s, TRUE) EXCEPT !.lastResultMessage[s] = NoMsg,
                                              !.queryPromise[s] = k]
      \* the body of the promise, up to the first chunk it awaits
      effectiveOptions == BuildEffectiveOptions(w3, s)
      known == w3.sessionId[s] # NoId
      transcriptCwd ==
        NormalizeWorkspacePath(FindWorkspacePathFromMessages(w3.messageList[s]))
      \* ensureCwdAliasExists links a migrated directory to the recorded path
      usable == /\ known
                /\ transcriptCwd # UndefinedV
                /\ IsExistingDirectory(ResolveExistingWorkspaceCwd(transcriptCwd))
      w4 == IF usable /\ w3.options[s].cwd # transcriptCwd
            THEN [w3 EXCEPT !.options[s].cwd = transcriptCwd] ELSE w3
      \* the options queryStream is given
      resumed == IF known THEN [effectiveOptions EXCEPT !.resume = << w3.sessionId[s] >>]
                 ELSE effectiveOptions
      queryOptions == IF usable THEN [resumed EXCEPT !.cwd = transcriptCwd]
                      ELSE resumed
  IN [w4 EXCEPT !.calls[k].pc = "streaming",
                !.calls[k].userMessage = userMessage,
                !.calls[k].resume = IF IsMissing(queryOptions.resume) THEN NoId
                                    ELSE queryOptions.resume[1],
                !.calls[k].queryOptions = queryOptions]

\* variant of SendToolResultAfterWait that tests the id as given, untrimmed
SendToolResultUntrimmed(w, k) ==
  LET c == w.calls[k]
  IN IF c.toolUseId = <<>>
     THEN [w EXCEPT !.calls[k].pc = "rejected"]
     ELSE StartQueryWithUserMessage(w, c.s, k,
            Msg("user", "", "", << ToolResultBlock(c.toolUseId[1], c.content, c.isError) >>,
                FALSE, "", k),
            UndefinedV)

\* sendToolResult after its `await this.queryPromise`
SendToolResultAfterWait(w, k) ==
  LET c == w.calls[k]
      trimmedId == Trim(c.toolUseId)
  IN IF trimmedId = <<>>
     THEN [w EXCEPT !.calls[k].pc = "rejected"]
     ELSE StartQueryWithUserMessage(w, c.s, k,
            Msg("user", "", "", << ToolResultBlock(trimmedId[1], c.content, c.isError) >>,
                FALSE, "", k),
            UndefinedV)

SessionSendToolResult(w, s, k, toolUseId, content, isError) ==
  LET w1 == [w EXCEPT !.calls[k].s = s,
                      !.calls[k].kind = "toolResult",
                      !.calls[k].toolUseId = toolUseId,
                      !.calls[k].content = content,
                      !.calls[k].isError = isError]
  IN IF w1.queryPromise[s] # 0 THEN AwaitQueryPromise(w1, s, k)
     ELSE SendToolResultAfterWait(w1, k)

\* send after its `await this.queryPromise`
SendAfterWait(w, k) ==
  LET c == w.calls[k]
      normalizedPrompt == Trim(c.prompt)
      pendingExitId == FindLatestPendingExitPlanModeToolUseId(w.messageList[c.s])
      w1 == [w EXCEPT !.calls[k].pendingAtStart = pendingExitId]
  IN IF IsAffirmation(c.prompt) /\ pendingExitId # ""
     THEN SessionSendToolResult([w1 EXCEPT !.calls[k].viaShim = TRUE], c.s, k,
                                << pendingExitId >>, ApprovedText, FALSE)
     ELSE StartQueryWithUserMessage(w1, c.s, k,
            Msg("user", "", "", BuildUserMessageContent(c.prompt), FALSE, "", k),
            normalizedPrompt)

\* variant of SessionSend that does not wait for the turn in flight
SessionSendNoWait(w, s, k, prompt) ==
  SendAfterWait([w EXCEPT !.calls[k].s = s,
                          !.calls[k].kind = "send",
                          !.calls[k].prompt = prompt], k)

SessionSend(w, s, k, prompt) ==
  LET w1 == [w EXCEPT !.calls[k].s = s,
                      !.calls[k].kind = "send",
                      !.calls[k].prompt = prompt]
  IN IF w1.queryPromise[s] # 0 THEN AwaitQueryPromise(w1, s, k)
     ELSE SendAfterWait(w1, k)

ExtractTimestamp(message) == message.timestamp

\* variant of ProcessIncomingMessage without the result branch
ProcessIncomingMessageNoResult(w, s, message) ==
  LET w1 == IF message.session_id # "" THEN UpdateSessionId(w, s, message.session_id)
            ELSE w
      w2 == IF message.type = "result"
            THEN [w1 EXCEPT !.lastResultMessage[s] = message] ELSE w1
      w3 == AddNewMessage(w2, s, message)
      w4 == [w3 EXCEPT !.lastModifiedTime[s] =
               IF ExtractTimestamp(message) >= 0 THEN ExtractTimestamp(message)
               ELSE w.now]
  IN IF message.type = "system" /\ message.subtype = "init"
     THEN SetBusyState(w4, s, TRUE)
     ELSE w4

ProcessIncomingMessage(w, s, message) ==
  LET w1 == IF message.session_id # "" THEN UpdateSessionId(w, s, message.session_id)
            ELSE w
      w2 == IF message.type = "result"
            THEN [w1 EXCEPT !.lastResultMessage[s] = message] ELSE w1
      w3 == AddNewMessage(w2, s, message)
      w4 == [w3 EXCEPT !.lastModifiedTime[s] =
               IF ExtractTimestamp(message) >= 0 THEN ExtractTimestamp(message)
               ELSE w.now]
  IN IF message.type = "system" /\ message.subtype = "init"
     THEN SetBusyState(w4, s, TRUE)
     ELSE IF message.type = "result" THEN SetBusyState(w4, s, FALSE) ELSE w4

\* variant of ShouldSuppressExitErrorAfterResult that does not look at is_error
ShouldSuppressAfterAnyResult(err, lastResult) ==
  /\ lastResult.type = "result"
  /\ err = ExitError

ShouldSuppressExitErrorAfterResult(err, lastResult) ==
  /\ lastResult.type = "result"
  /\ lastResult.is_error
  /\ err = ExitError

\* variant of FinishTurn that settles the turn's promise without running the
\* continuations of the calls waiting for it
FinishTurnNoWake(w, k, err) ==
  LET s == w.calls[k].s
      w1 == IF err # NoError
               /\ ~ ShouldSuppressExitErrorAfterResult(err, w.lastResultMessage[s])
            THEN [w EXCEPT !.error[s] = err] ELSE w
      w2 == SetBusyState([w1 EXCEPT !.queryPromise[s] = 0], s, FALSE)
  IN [w2 EXCEPT !.calls[k].pc = "tail", !.calls[k].waiters = <<>>,
                !.microtasks = @ \o << k >>]

\* the stream of call k's turn has ended (err = NoError) or thrown: the catch and
\* finally blocks of the turn, then the promise settles and its awaiters are queued
FinishTurn(w, k, err) ==
  LET s == w.calls[k].s
      w1 == IF err # NoError
               /\ ~ ShouldSuppressExitErrorAfterResult(err, w.lastResultMessage[s])
            THEN [w EXCEPT !.error[s] = err] ELSE w
      w2 == SetBusyState([w1 EXCEPT !.queryPromise[s] = 0], s, FALSE)
      woken == w2.calls[k].waiters
  IN [w2 EXCEPT !.calls = [j \in CallIds |->
                   IF j = k THEN [@[j] EXCEPT !.pc = "tail", !.waiters = <<>>]
                   ELSE IF \E i \in 1..Len(woken) : woken[i] = j
                        THEN [@[j] EXCEPT !.pc = "ready"]
                        ELSE @[j]],
                !.microtasks = @ \o << k >> \o woken]

\* the continuation at the head of the microtask queue
RunContinuation(w, k) ==
  LET c == w.calls[k]
      w1 == [w EXCEPT !.microtasks = Tail(@)]
  IN IF c.pc = "tail"
     THEN [w1 EXCEPT !.lastModifiedTime[c.s] = w.now, !.calls[k].pc = "resolved"]
     ELSE IF c.kind = "send" THEN SendAfterWait(w1, k)
     ELSE SendToolResultAfterWait(w1, k)

(***************************************************************************)
(* Session: transcript loads.                                              *)
(***************************************************************************)
SessionLoadFromServer(w, s, sid) ==
  LET targetSessionId == IF sid # NoId THEN sid ELSE w.sessionId[s]
  IN IF targetSessionId = NoId THEN w
     ELSE IF w.loadingPromise[s] # NoId THEN w
     ELSE LET w1 == SetLoadingState(UpdateSessionId(w, s, targetSessionId), s, TRUE)
          IN [w1 EXCEPT !.error[s] = NoError,
                        !.loadingPromise[s] = targetSessionId,
                        !.loadReads[targetSessionId] = @ + 1]

\* variant of SessionResumeFrom without the already-loaded short cut
SessionResumeAlwaysLoads(w, s, sid) ==
  IF sid = NoId THEN w
  ELSE SessionLoadFromServer(w, s, sid)

SessionResumeFrom(w, s, sid) ==
  IF sid = NoId THEN w
  ELSE IF w.sessionId[s] = sid /\ w.isLoaded[s] THEN w
  ELSE SessionLoadFromServer(w, s, sid)

\* variant of LoadSettled that hands an empty answer to setMessages as well
LoadSettledSetsEmpty(w, s, failed, messages) ==
  LET w1 == IF failed THEN [w EXCEPT !.error[s] = LoadError]
            ELSE [SetBusyState(
                    SetMessages([w EXCEPT !.summary[s] = UndefinedV], s, messages),
                    s, FALSE)
                  EXCEPT !.isLoaded[s] = TRUE]
  IN [SetLoadingState(w1, s, FALSE) EXCEPT !.loadingPromise[s] = NoId]

\* variant of LoadSettled whose catch block resets the transcript
LoadSettledFailureResets(w, s, failed, messages) ==
  LET w1 == IF failed
            THEN SetMessages([w EXCEPT !.error[s] = LoadError], s, <<>>)
            ELSE IF messages = <<>>
            THEN SetBusyState([w EXCEPT !.messageList[s] = <<>>,
                                        !.summary[s] = UndefinedV,
                                        !.lastModifiedTime[s] = w.now], s, FALSE)
            ELSE [SetBusyState(
                    SetMessages([w EXCEPT !.summary[s] = UndefinedV], s, messages),
                    s, FALSE)
                  EXCEPT !.isLoaded[s] = TRUE]
  IN [SetLoadingState(w1, s, FALSE) EXCEPT !.loadingPromise[s] = NoId]

\* sdkClient.loadMessages has answered: "fail" (it rejected) or the messages
LoadSettled(w, s, failed, messages) ==
  LET w1 == IF failed THEN [w EXCEPT !.error[s] = LoadError]
            ELSE IF messages = <<>>
            THEN SetBusyState([w EXCEPT !.messageList[s] = <<>>,
                                        !.summary[s] = UndefinedV,
                                        !.lastModifiedTime[s] = w.now], s, FALSE)
            ELSE [SetBusyState(
                    SetMessages([w EXCEPT !.summary[s] = UndefinedV], s, messages),
                    s, FALSE)
                  EXCEPT !.isLoaded[s] = TRUE]
  IN [SetLoadingState(w1, s, FALSE) EXCEPT !.loadingPromise[s] = NoId]

(***************************************************************************)
(* SessionManager.                                                         *)
(***************************************************************************)
FirstOf(S) == IF S = {} THEN 0 ELSE CHOOSE x \in S : \A y \in S : x <= y

\* 0 stands for undefined
GetSession(w, sid) == FirstOf({ s \in 1..w.numSessions : w.sessionId[s] = sid })

\* variant of FindSessionFor that looks at the binding before the id
FindSessionForBindingFirst(w, client) ==
  LET byId == IF w.clientSessionId[client] # NoId
              THEN GetSession(w, w.clientSessionId[client]) ELSE 0
      byBinding == IF w.clientSessions[client] # 0 THEN w.clientSessions[client]
                   ELSE byId
  IN IF byBinding # 0 THEN byBinding
     ELSE FirstOf({ s \in 1..w.numSessions : HasClient(w, s, client) })

\* the Session getOrCreateSession finds, 0 when it has to create one
FindSessionFor(w, client) ==
  LET byId == IF w.clientSessionId[client] # NoId
              THEN GetSession(w, w.clientSessionId[client]) ELSE 0
      byBinding == IF byId # 0 THEN byId ELSE w.clientSessions[client]
  IN IF byBinding # 0 THEN byBinding
     ELSE FirstOf({ s \in 1..w.numSessions : HasClient(w, s, client) })

\* the returned Session is clientSessions[client] of the resulting state
GetOrCreateSession(w, client) ==
  LET found == FindSessionFor(w, client)
      created == w.numSessions + 1
      w1 == [w EXCEPT !.numSessions = created]
      w2 == IF w.clientSessionId[client] # NoId
            THEN SessionResumeFrom(
                   [w1 EXCEPT !.sessionId[created] = w.clientSessionId[client]],
                   created, w.clientSessionId[client])
            ELSE w1
  IN IF found # 0 THEN [w EXCEPT !.clientSessions[client] = found]
     ELSE [w2 EXCEPT !.clientSessions[client] = created]

ManagerSubscribe(w, client) ==
  LET w1 == GetOrCreateSession(Invoked(w, "subscribe", client), client)
  IN SessionSubscribe(w1, w1.clientSessions[client], client)

ManagerUnsubscribe(w, client) ==
  LET session == IF w.clientSessionId[client] # NoId
                 THEN GetSession(w, w.clientSessionId[client]) ELSE 0
      w0 == Invoked(w, "unsubscribe", client)
  IN IF session = 0 THEN [w0 EXCEPT !.clientSessions[client] = 0]
     ELSE [SessionUnsubscribe(w0, session, client) EXCEPT !.clientSessions[client] = 0]

ManagerSendMessage(w, client, k, prompt) ==
  LET w1 == GetOrCreateSession(Invoked(w, "sendMessage", client), client)
      session == w1.clientSessions[client]
  IN SessionSend(SessionSubscribe(w1, session, client), session, k, prompt)

ManagerSetSDKOptions(w, client, opts) ==
  LET w1 == GetOrCreateSession(Invoked(w, "setSDKOptions", client), client)
  IN SessionSetSDKOptions(w1, w1.clientSessions[client], opts)

ManagerSendToolResult(w, client, k, toolUseId, content, isError) ==
  LET w1 == GetOrCreateSession(Invoked(w, "sendToolResult", client), client)
      session == w1.clientSessions[client]
  IN SessionSendToolResult(SessionSubscribe(w1, session, client), session, k,
                           toolUseId, content, isError)

(***************************************************************************)
(* WebSocketHandler.  An envelope's session id arrives as a text and is    *)
(* trimmed; NoId when it is missing or blank.                              *)
(***************************************************************************)
ServerOptions == [NoOptions EXCEPT !.cwd = << "/a" >>]

RequestedSessionId(raw) == IF Trim(raw) = <<>> THEN NoId ELSE Trim(raw)[1]

SendError(w, client, code) == [w EXCEPT !.wsErrors[client] = Append(@, code)]

HandlerOnOpen(w, client) ==
  ManagerSetSDKOptions(
    ManagerSubscribe([w EXCEPT !.wsState[client] = "open"], client),
    client, ServerOptions)

HandlerOnClose(w, client) ==
  [ManagerUnsubscribe(w, client) EXCEPT !.wsState[client] = "closed"]

HandleSetSDKOptions(w, client, rawSessionId, opts) ==
  LET requestedSessionId == RequestedSessionId(rawSessionId)
      w1 == IF requestedSessionId # NoId
            THEN [w EXCEPT !.clientSessionId[client] = requestedSessionId] ELSE w
  IN ManagerSetSDKOptions(w1, client, [opts EXCEPT !.cwd = AbsentV])

\* variant of HandleChatMessage that looks at the content after it has dealt
\* with the session id
HandleChatMessageLateCheck(w, client, k, rawContent, rawSessionId, newConversation) ==
  LET content == Trim(rawContent)
      requestedSessionId == RequestedSessionId(rawSessionId)
      shouldStartNewSession == w.clientSessionId[client] # NoId \/ newConversation
      w1 == IF requestedSessionId = NoId /\ shouldStartNewSession
            THEN ManagerSetSDKOptions(
                   [ManagerUnsubscribe(w, client)
                      EXCEPT !.clientSessionId[client] = NoId],
                   client, ServerOptions)
            ELSE w
      w2 == IF requestedSessionId # NoId
            THEN [w1 EXCEPT !.clientSessionId[client] = requestedSessionId] ELSE w1
  IN IF content = <<>> THEN SendError(w2, client, "empty_message")
     ELSE ManagerSendMessage(w2, client, k, content)

HandleChatMessage(w, client, k, rawContent, rawSessionId, newConversation) ==
  LET content == Trim(rawContent)
      requestedSessionId == RequestedSessionId(rawSessionId)
      shouldStartNewSession == w.clientSessionId[client] # NoId \/ newConversation
      w1 == IF requestedSessionId = NoId /\ shouldStartNewSession
            THEN ManagerSetSDKOptions(
                   [ManagerUnsubscribe(w, client)
                      EXCEPT !.clientSessionId[client] = NoId],
                   client, ServerOptions)
            ELSE w
      w2 == IF requestedSessionId # NoId
            THEN [w1 EXCEPT !.clientSessionId[client] = requestedSessionId] ELSE w1
  IN IF content = <<>> THEN SendError(w, client, "empty_message")
     ELSE ManagerSendMessage(w2, client, k, content)

\* handleChatMessage of the copy of the handler in packages/websocket
HandleChatMessagePackaged(w, client, k, rawContent, rawSessionId) ==
  LET content == Trim(rawContent)
      requestedSessionId == RequestedSessionId(rawSessionId)
      previousSessionId == w.clientSessionId[client]
      previousSession == IF previousSessionId # NoId
                         THEN GetSession(w, previousSessionId) ELSE 0
      w0 == IF previousSession # 0
            THEN SessionUnsubscribe(w, previousSession, client) ELSE w
      w1 == IF requestedSessionId = NoId
            THEN ManagerSetSDKOptions([w0 EXCEPT !.clientSessionId[client] = NoId],
                                      client, ServerOptions)
            ELSE w
      w2 == IF requestedSessionId # NoId
            THEN [w1 EXCEPT !.clientSessionId[client] = requestedSessionId] ELSE w1
  IN IF content = <<>> THEN SendError(w, client, "empty_message")
     ELSE ManagerSendMessage(w2, client, k, content)

HandleToolResultMessage(w, client, k, rawSessionId, rawToolUseId, content, isError) ==
  LET requestedSessionId == RequestedSessionId(rawSessionId)
      w1 == IF requestedSessionId # NoId
            THEN [w EXCEPT !.clientSessionId[client] = requestedSessionId] ELSE w
      toolUseId == Trim(rawToolUseId)
  IN IF toolUseId = <<>> THEN SendError(w1, client, "invalid_tool_use_id")
     ELSE ManagerSendToolResult(w1, client, k, toolUseId, content, isError)

HandleResumeMessage(w, client, rawSessionId) ==
  LET targetSessionId == RequestedSessionId(rawSessionId)
      previousSessionId == w.clientSessionId[client]
      w1 == IF previousSessionId # NoId /\ previousSessionId # targetSessionId
            THEN ManagerUnsubscribe(w, client) ELSE w
      w2 == GetOrCreateSession(
              Invoked([w1 EXCEPT !.clientSessionId[client] = targetSessionId],
                      "getOrCreateSession", client),
              client)
      session == w2.clientSessions[client]
      isNewSession == w2.messageList[session] = <<>>
      w3 == IF isNewSession THEN ManagerSetSDKOptions(w2, client, ServerOptions)
            ELSE w2
      w4 == [SessionSubscribe(w3, session, client)
               EXCEPT !.clientSessionId[client] = targetSessionId]
  IN IF targetSessionId = NoId THEN SendError(w, client, "invalid_session_id")
     ELSE SessionResumeFrom(w4, session, targetSessionId)

ConsultationPrompt == << "[consultation:preset=consultative-selling]" >>

HandleStartConsultation(w, client, k, preset) ==
  IF Trim(preset) # << "consultative-selling" >>
  THEN SendError(w, client, "unsupported_consultation_preset")
  ELSE ManagerSendMessage(
         ManagerSetSDKOptions(
           [ManagerUnsubscribe(w, client) EXCEPT !.clientSessionId[client] = NoId],
           client, ServerOptions),
         client, k, ConsultationPrompt)

HandlerOnMessage(w, client, k, message) ==
  IF ~ message.json THEN SendError(w, client, "Invalid JSON payload")
  ELSE CASE message.type = "chat" ->
              HandleChatMessage(w, client, k, message.content, message.sessionId,
                                message.newConversation)
         [] message.type = "setSDKOptions" ->
              HandleSetSDKOptions(w, client, message.sessionId, message.options)
         [] message.type = "resume" ->
              HandleResumeMessage(w, client, message.sessionId)
         [] message.type = "toolResult" ->
              HandleToolResultMessage(w, client, k, message.sessionId,
                                      message.toolUseId, message.content,
                                      message.isError)
         [] message.type = "startConsultation" ->
              HandleStartConsultation(w, client, k, message.content)
         [] OTHER -> SendError(w, client, "unsupported_message_type")

(***************************************************************************)
(* Initial state: a SessionManager with no Session, no client connected.   *)
(* Every Session slot holds the field values of a newly constructed        *)
(* Session.                                                                *)
(***************************************************************************)
InitFields ==
  /\ options = [s \in Sessions |-> CreateDefaultOptions(UndefinedV)]
  /\ summary = [s \in Sessions |-> UndefinedV]
  /\ error = [s \in Sessions |-> NoError]
  /\ queryPromise = [s \in Sessions |-> 0]
  /\ loadingPromise = [s \in Sessions |-> NoId]
  /\ abortController = [s \in Sessions |-> 0]
  /\ aborted = {}
  /\ busyState = [s \in Sessions |-> FALSE]
  /\ loadingState = [s \in Sessions |-> FALSE]
  /\ lastResultMessage = [s \in Sessions |-> NoMsg]
  /\ clients = [s \in Sessions |-> {}]
  /\ pendingStateUpdate = [s \in Sessions |-> NoUpdate]
  /\ debounceTimer = [s \in Sessions |-> FALSE]
  /\ lastModifiedTime = [s \in Sessions |-> 0]
  /\ clientSessions = [c \in Clients |-> 0]
  /\ clientSessionId = [c \in Clients |-> NoId]
  /\ wsState = [c \in Clients |-> "new"]
  /\ received = [c \in Clients |-> <<>>]
  /\ wsErrors = [c \in Clients |-> <<>>]
  /\ managerCalls = <<>>
  /\ calls = [k \in CallIds |-> NoCall]
  /\ microtasks = <<>>
  /\ appendLog = <<>>
  /\ resumeLog = [s \in Sessions |-> <<>>]
  /\ lastOp = Op("init", 0, "", 0, NoId)
  /\ now = 0

\* no transcript has been loaded and no Session has an id
InitUnloaded ==
  /\ sessionId = [s \in Sessions |-> NoId]
  /\ messageList = [s \in Sessions |-> <<>>]
  /\ isLoaded = [s \in Sessions |-> FALSE]
  /\ loadReads = [i \in SessionIds |-> 0]

\* the next call of send / sendToolResult, 0 when the model's calls are used up
NextCall == FirstOf({ k \in CallIds : calls[k].pc = "unused" })

\* a macrotask runs only when no promise continuation is queued
Idle == microtasks = <<>>

(***************************************************************************)
(* Steps on one Session, called directly (as the tests of Session do).     *)
(***************************************************************************)
CallSend(s, prompt) ==
  /\ Idle /\ NextCall # 0
  /\ Commit(Did(SessionSend(World, s, NextCall, prompt), "send", s, "", NextCall, NoId))

CallSendToolResult(s, toolUseId, content, isError) ==
  /\ Idle /\ NextCall # 0
  /\ Commit(Did(SessionSendToolResult(World, s, NextCall, toolUseId, content, isError),
                "sendToolResult", s, "", NextCall, NoId))

Microtask ==
  /\ microtasks # <<>>
  /\ Commit(Did(RunContinuation(World, Head(microtasks)),
                "continue", calls[Head(microtasks)].s, "", Head(microtasks), NoId))

\* the stream of call k yields a message, its bound-th at most
StreamYieldUpTo(k, message, bound) ==
  /\ Idle
  /\ calls[k].pc = "streaming"
  /\ calls[k].yielded < bound
  /\ \E w \in { ProcessIncomingMessage(World, calls[k].s, message) } :
       Commit(Did([w EXCEPT !.calls[k].yielded = @ + 1,
                            !.appendLog = Append(@, k)],
                  "message", calls[k].s, "", k, NoId))

StreamYield(k, message) == StreamYieldUpTo(k, message, MaxStreamLen)

StreamEnd(k) ==
  /\ Idle
  /\ calls[k].pc = "streaming"
  /\ Commit(Did(FinishTurn(World, k, NoError), "streamEnd", calls[k].s, "", k, NoId))

StreamThrow(k, err) ==
  /\ Idle
  /\ calls[k].pc = "streaming"
  /\ Commit(Did(FinishTurn(World, k, err), "streamThrow", calls[k].s, "", k, err))

\* history: resumeFrom(sid) was called on s, and whether it read the store
LogResume(w, s, sid) ==
  LET entry == [id |-> sid, read |-> w.loadReads[sid] > 0]
  IN [w EXCEPT !.resumeLog[s] =
        IF Len(@) < 2 THEN Append(@, entry) ELSE << @[2], entry >>]

CallResumeFrom(s, sid) ==
  /\ Idle
  /\ Commit(Did(LogResume(SessionResumeFrom(World, s, sid), s, sid),
                "resumeFrom", s, "", 0, sid))

\* how the load ended: the catch block, the empty branch or setMessages
LoadOutcome(failed, messages) ==
  IF failed THEN "loadFailed"
  ELSE IF messages = <<>> THEN "loadEmpty" ELSE "loadMessages"

\* sdkClient.loadMessages answers the load in flight on s
LoadSettles(s, failed, messages) ==
  /\ Idle
  /\ loadingPromise[s] # NoId
  /\ Commit(Did(LoadSettled(World, s, failed, messages),
                LoadOutcome(failed, messages), s, "", 0, loadingPromise[s]))

CallSubscribe(s, c) ==
  /\ Idle
  /\ Commit(Did(SessionSubscribe(World, s, c), "subscribe", s, c, 0, NoId))

CallUnsubscribe(s, c) ==
  /\ Idle
  /\ Commit(Did(SessionUnsubscribe(World, s, c), "unsubscribe", s, c, 0, NoId))

CallSetSDKOptions(s, opts) ==
  /\ Idle
  /\ \E w \in { Did(SessionSetSDKOptions(World, s, opts), "setOptions", s, "", 0, NoId) } :
       Commit([w EXCEPT !.lastOp.args = opts, !.lastOp.before = options[s]])

Interrupt(s) ==
  /\ Idle
  /\ Commit(Did(SessionInterrupt(World, s), "interrupt", s, "", 0, NoId))

\* Date.now() moves on
Tick ==
  /\ Idle
  /\ now < MaxClock
  /\ Commit(Did([World EXCEPT !.now = @ + 1], "tick", 0, "", 0, NoId))

TimerFires(s) ==
  /\ Idle
  /\ debounceTimer[s]
  /\ Commit(Did(FlushStateChange(World, s), "flush", s, "", 0, NoId))

(***************************************************************************)
(* Spec: one Session and the calls made on it (turns, the agent's stream,  *)
(* interrupt, the debounce timer).                                         *)
(***************************************************************************)
TurnPrompts == { << "h", "i" >> }
TurnToolIds == { << "toolu_exit" >> }
TurnStreamMsgs == { ResultMsg("s-1", FALSE) }

Init ==
  /\ InitFields
  /\ InitUnloaded
  /\ numSessions = 1

Next ==
  \/ \E p \in TurnPrompts : CallSend(1, p)
  \/ \E id \in TurnToolIds : CallSendToolResult(1, id, DeclinedText, TRUE)
  \/ Microtask
  \/ \E k \in CallIds, m \in TurnStreamMsgs : StreamYield(k, m)
  \/ \E k \in CallIds : StreamEnd(k)
  \/ \E k \in CallIds : StreamThrow(k, OtherError)

Spec == Init /\ [][Next]_vars

(***************************************************************************)
(* SpecPending: one Session that has resumed a stored transcript, and at   *)
(* most two calls made on it (one that starts a turn, one that may have to *)
(* wait for it).                                                           *)
(***************************************************************************)
MaxTranscript == 2

PendingMsgs ==
  { AssistantToolUse("s-1", "toolu_exit", "ExitPlanMode"),
    AssistantToolUse("s-1", "toolu_ask", "AskUserQuestion"),
    UserToolResult("s-1", "toolu_exit", ExitPlaceholder, TRUE),
    UserToolResult("s-1", "toolu_exit", DeclinedText, TRUE),
    UserToolResult("s-1", "toolu_exit", ApprovedText, FALSE),
    UserToolResult("s-1", "toolu_ask", AskPlaceholder, TRUE),
    UserToolResult("s-1", "toolu_ask", DeclinedText, TRUE),
    AssistantText("s-1") }

PendingTranscripts ==
  UNION { [1..n -> PendingMsgs] : n \in 1..MaxTranscript }

PendingPrompts ==
  { << " ", "R", "U", "N", " " >>,
    << "E", "x", "e", "c", "u", "t", "e" >>,
    << "zhi", "xing" >>, << "yun", "xing" >>, << "ju", "jue" >>,
    << "h", "i" >> }

PendingCalls == {1, 2}

InitPending ==
  /\ InitFields
  /\ numSessions = 1
  /\ \E t \in PendingTranscripts :
       messageList = [s \in Sessions |-> IF s = 1 THEN t ELSE <<>>]
  /\ sessionId = [s \in Sessions |-> IF s = 1 THEN "s-1" ELSE NoId]
  /\ isLoaded = [s \in Sessions |-> s = 1]
  /\ loadReads = [i \in SessionIds |-> 0]

NextPending ==
  \/ \E p \in PendingPrompts : NextCall \in PendingCalls /\ CallSend(1, p)
  \/ /\ NextCall \in PendingCalls
     /\ CallSendToolResult(1, << "toolu_exit" >>, ApprovedText, FALSE)
  \/ Microtask
  \/ \E k \in CallIds : StreamYield(k, ResultMsg("s-1", FALSE))
  \/ \E k \in CallIds : StreamEnd(k)

SpecPending == InitPending /\ [][NextPending]_vars

(***************************************************************************)
(* SpecResume: one Session, resumeFrom calls on it and the answers of the  *)
(* transcript store (nothing stored, a stored transcript, a failure).      *)
(***************************************************************************)
StoredTranscript(sid) == << SystemInit(sid, "/a"), AssistantText(sid) >>

InitResume ==
  /\ InitFields
  /\ InitUnloaded
  /\ numSessions = 1

NextResume ==
  \/ \E sid \in SessionIds : CallResumeFrom(1, sid)
  \/ LoadSettles(1, FALSE, <<>>)
  \/ LoadSettles(1, FALSE, StoredTranscript(loadingPromise[1]))
  \/ LoadSettles(1, TRUE, <<>>)

SpecResume == InitResume /\ [][NextResume]_vars

(***************************************************************************)
(* SpecLoad: one Session with clients subscribing and unsubscribing, one   *)
(* turn, resumeFrom calls with every answer of the transcript store, and   *)
(* the debounce timer.                                                     *)
(***************************************************************************)
LoadCalls == {1}
LoadStreamMsgs == { SystemInit("s-1", "/a"), ResultMsg("s-1", FALSE) }

InitLoad ==
  /\ InitFields
  /\ InitUnloaded
  /\ numSessions = 1

NextLoad ==
  \/ \E c \in Clients : CallSubscribe(1, c)
  \/ \E c \in Clients : CallUnsubscribe(1, c)
  \/ \E p \in TurnPrompts : NextCall \in LoadCalls /\ CallSend(1, p)
  \/ Microtask
  \/ \E k \in CallIds, m \in LoadStreamMsgs : StreamYield(k, m)
  \/ \E k \in CallIds : StreamEnd(k)
  \/ CallResumeFrom(1, "s-1")
  \/ LoadSettles(1, FALSE, <<>>)
  \/ LoadSettles(1, FALSE, StoredTranscript(loadingPromise[1]))
  \/ LoadSettles(1, TRUE, <<>>)
  \/ TimerFires(1)

SpecLoad == InitLoad /\ [][NextLoad]_vars

(***************************************************************************)
(* SpecToolResult: sendToolResult with usable and blank tool-use ids, next *)
(* to send, on one Session with a subscriber.                              *)
(***************************************************************************)
ToolResultIds ==
  { <<>>, << " " >>, << " ", " " >>, << "toolu_exit" >>, << " ", "toolu_exit", " " >> }

InitToolResult ==
  /\ InitFields
  /\ InitUnloaded
  /\ numSessions = 1

NextToolResult ==
  \/ CallSubscribe(1, "c1")
  \/ \E p \in TurnPrompts : CallSend(1, p)
  \/ \E id \in ToolResultIds : CallSendToolResult(1, id, DeclinedText, TRUE)
  \/ Microtask
  \/ \E k \in CallIds, m \in TurnStreamMsgs : StreamYield(k, m)
  \/ \E k \in CallIds : StreamEnd(k)

SpecToolResult == InitToolResult /\ [][NextToolResult]_vars

(***************************************************************************)
(* SpecOptions: setSDKOptions calls on one Session with subscribers and    *)
(* the debounce timer.                                                     *)
(***************************************************************************)
OptionInputs ==
  [ cwd : { AbsentV, UndefinedV, <<>>, << " " >>, << "/a" >>, << "/b" >> },
    allowedTools : { AbsentV, UndefinedV, << "Read" >> },
    model : { AbsentV, UndefinedV, << "m1" >> },
    resume : { AbsentV } ]

InitOptions ==
  /\ InitFields
  /\ InitUnloaded
  /\ numSessions = 1

NextOptions ==
  \/ \E opts \in OptionInputs : CallSetSDKOptions(1, opts)
  \/ \E c \in Clients : CallSubscribe(1, c)
  \/ TimerFires(1)

SpecOptions == InitOptions /\ [][NextOptions]_vars

(***************************************************************************)
(* SpecTurn: one or two sends on a fresh Session with a subscriber, the    *)
(* agent's stream (init, result, in any order), interrupt and the clock.   *)
(***************************************************************************)
MaxTurnStream == 2

HelloPrompt == << "h", "e", "l", "l", "o" >>
ScenarioCalls == {1, 2}
ScenarioMsgs == { SystemInit("s-1", "/a"), ResultMsg("s-1", FALSE) }

ScenarioYield(k, message) == StreamYieldUpTo(k, message, MaxTurnStream)

InitTurn ==
  /\ InitFields
  /\ InitUnloaded
  /\ numSessions = 1

NextTurn ==
  \/ CallSubscribe(1, "c1")
  \/ NextCall \in ScenarioCalls /\ CallSend(1, HelloPrompt)
  \/ Microtask
  \/ \E k \in CallIds, m \in ScenarioMsgs : ScenarioYield(k, m)
  \/ \E k \in CallIds : StreamEnd(k)
  \/ \E k \in CallIds : StreamThrow(k, OtherError)
  \/ Interrupt(1)
  \/ Tick
  \/ TimerFires(1)

SpecTurn == InitTurn /\ [][NextTurn]_vars

(***************************************************************************)
(* SpecDebounce: one Session with a subscriber; its options are set, a     *)
(* stored transcript is resumed, a turn runs and is interrupted, and the   *)
(* debounce timer fires.                                                   *)
(***************************************************************************)
DebounceOptions ==
  { [NoOptions EXCEPT !.cwd = << "/b" >>], [NoOptions EXCEPT !.model = << "m1" >>] }

NextDebounce ==
  \/ CallSubscribe(1, "c1")
  \/ \E o \in DebounceOptions : CallSetSDKOptions(1, o)
  \/ CallResumeFrom(1, "s-1")
  \/ LoadSettles(1, FALSE, StoredTranscript(loadingPromise[1]))
  \/ NextCall \in LoadCalls /\ CallSend(1, HelloPrompt)
  \/ Microtask
  \/ \E k \in CallIds : StreamYield(k, ResultMsg("s-1", FALSE))
  \/ \E k \in CallIds : StreamEnd(k)
  \/ Interrupt(1)
  \/ TimerFires(1)

SpecDebounce == InitLoad /\ [][NextDebounce]_vars

(***************************************************************************)
(* SpecFailure: two calls on one Session whose streams may carry a result  *)
(* with or without an error and then end or throw; the Session's options   *)
(* may be given a resume id.                                               *)
(***************************************************************************)
FailureMsgs == { ResultMsg("s-1", TRUE), ResultMsg("s-1", FALSE) }
FailureErrors == { ExitError, OtherError }
ResumeOption == [NoOptions EXCEPT !.resume = << "s-9" >>]

NextFailure ==
  \/ CallSubscribe(1, "c1")
  \/ NextCall \in ScenarioCalls /\ CallSend(1, HelloPrompt)
  \/ NextCall \in ScenarioCalls
       /\ CallSendToolResult(1, << "toolu_exit" >>, DeclinedText, TRUE)
  \/ Microtask
  \/ \E k \in CallIds, m \in FailureMsgs : StreamYield(k, m)
  \/ \E k \in CallIds : StreamEnd(k)
  \/ \E k \in CallIds, e \in FailureErrors : StreamThrow(k, e)
  \/ CallSetSDKOptions(1, ResumeOption)
  \/ TimerFires(1)

SpecFailure == InitTurn /\ [][NextFailure]_vars

(***************************************************************************)
(* SpecProgress: two calls on one Session next to transcript loads and     *)
(* interrupt, with the scheduling the runtime gives: the event loop runs   *)
(* every queued continuation, every stream of the agent ends or throws,    *)
(* and every loadMessages call is answered.                                *)
(***************************************************************************)
NextProgress ==
  \/ NextCall \in ScenarioCalls /\ CallSend(1, HelloPrompt)
  \/ NextCall \in ScenarioCalls
       /\ CallSendToolResult(1, << "toolu_exit" >>, DeclinedText, TRUE)
  \/ Microtask
  \/ \E k \in CallIds : StreamYield(k, ResultMsg("s-1", FALSE))
  \/ \E k \in CallIds : StreamEnd(k)
  \/ \E k \in CallIds : StreamThrow(k, OtherError)
  \/ Interrupt(1)
  \/ CallResumeFrom(1, "s-1")
  \/ LoadSettles(1, FALSE, <<>>)
  \/ LoadSettles(1, FALSE, StoredTranscript(loadingPromise[1]))
  \/ LoadSettles(1, TRUE, <<>>)

\* the stream of call k terminates, normally or by throwing
StreamTerminates(k) == StreamEnd(k) \/ StreamThrow(k, OtherError)

\* the loadMessages call in flight settles
LoadAnswered ==
  \/ LoadSettles(1, FALSE, <<>>)
  \/ LoadSettles(1, FALSE, StoredTranscript(loadingPromise[1]))
  \/ LoadSettles(1, TRUE, <<>>)

\* Weak fairness of Microtask, of StreamTerminates(k) and of LoadAnswered,
\* written out as  []<>(the step is not enabled) \/ []<>(the step is taken)
\* with each step's guard as its enabling condition: Microtask always changes
\* microtasks, StreamTerminates(k) always changes calls[k].pc, and LoadAnswered
\* always changes loadingPromise, so each is enabled exactly when its guard holds.
FairProgress ==
  /\ []<>(microtasks = <<>>) \/ []<><<Microtask>>_vars
  /\ \A k \in CallIds :
       []<>(~ (Idle /\ calls[k].pc = "streaming")) \/ []<><<StreamTerminates(k)>>_vars
  /\ []<>(~ (Idle /\ loadingPromise[1] # NoId)) \/ []<><<LoadAnswered>>_vars

SpecProgress == InitTurn /\ [][NextProgress]_vars /\ FairProgress

(***************************************************************************)
(* SpecManager: two transport clients, the envelopes they send to the      *)
(* WebSocketHandler, the agent's streams, the transcript store and the     *)
(* debounce timers.                                                        *)
(***************************************************************************)
MaxManagerCalls == 1

ManagerRawIds == { <<>>, << "s-1" >> }
ManagerPrompts == { << "h", "i" >> }
ManagerOptions == { NoOptions }

\* what the transcript store holds: a transcript for "s-1", nothing otherwise
ManagerStore(sid) == IF sid = "s-1" THEN StoredTranscript(sid) ELSE <<>>

\* a step is cut off where it would leave the bounds of the model
ManagerStep(w) ==
  /\ w.numSessions <= MaxSessions
  /\ Commit(w)

OnOpen(c) ==
  /\ Idle
  /\ wsState[c] = "new"
  /\ ManagerStep(Did(HandlerOnOpen(World, c), "open", 0, c, 0, NoId))

OnClose(c) ==
  /\ Idle
  /\ wsState[c] = "open"
  /\ ManagerStep(Did(HandlerOnClose(World, c), "close", 0, c, 0, NoId))

OnChat(c, content, rawSessionId, newConversation) ==
  /\ Idle
  /\ wsState[c] = "open"
  /\ NextCall # 0 /\ NextCall <= MaxManagerCalls
  /\ ManagerStep(Did(HandleChatMessage(World, c, NextCall, content, rawSessionId,
                                       newConversation),
                     "chat", 0, c, NextCall, RequestedSessionId(rawSessionId)))

OnSetSDKOptions(c, rawSessionId, opts) ==
  /\ Idle
  /\ wsState[c] = "open"
  /\ ManagerStep(Did(HandleSetSDKOptions(World, c, rawSessionId, opts),
                     "setSDKOptions", 0, c, 0, RequestedSessionId(rawSessionId)))

OnToolResult(c, rawSessionId, rawToolUseId, content, isError) ==
  /\ Idle
  /\ wsState[c] = "open"
  /\ NextCall # 0 /\ NextCall <= MaxManagerCalls
  /\ ManagerStep(Did(HandleToolResultMessage(World, c, NextCall, rawSessionId,
                                             rawToolUseId, content, isError),
                     "toolResult", 0, c, NextCall, RequestedSessionId(rawSessionId)))

OnResume(c, rawSessionId) ==
  /\ Idle
  /\ wsState[c] = "open"
  /\ ManagerStep(Did(HandleResumeMessage(World, c, rawSessionId),
                     "resume", 0, c, 0, RequestedSessionId(rawSessionId)))

\* the session ids the agent may announce for the turn of call k: the one it was
\* asked to resume, else one that no Session has
AgentSessionIds(k) ==
  IF calls[k].resume # NoId THEN {calls[k].resume}
  ELSE { sid \in SessionIds : \A s \in Sessions : sessionId[s] # sid }

AgentYields(k) ==
  \E sid \in AgentSessionIds(k) : StreamYield(k, SystemInit(sid, "/a"))

ManagerLoadSettles(s) == LoadSettles(s, FALSE, ManagerStore(loadingPromise[s]))

InitManager ==
  /\ InitFields
  /\ InitUnloaded
  /\ numSessions = 0

NextManager ==
  \/ \E c \in Clients : OnOpen(c)
  \/ \E c \in Clients : OnClose(c)
  \/ \E c \in Clients, p \in ManagerPrompts, id \in ManagerRawIds, n \in BOOLEAN :
       OnChat(c, p, id, n)
  \/ \E c \in Clients, o \in ManagerOptions : OnSetSDKOptions(c, <<>>, o)
  \/ \E c \in Clients :
       OnToolResult(c, <<>>, << "toolu_exit" >>, ApprovedText, FALSE)
  \/ \E c \in Clients, id \in ManagerRawIds : OnResume(c, id)
  \/ Microtask
  \/ \E k \in CallIds : AgentYields(k)
  \/ \E k \in CallIds : StreamEnd(k)
  \/ \E s \in Sessions : ManagerLoadSettles(s)
  \/ \E s \in Sessions : TimerFires(s)

SpecManager == InitManager /\ [][NextManager]_vars

(***************************************************************************)
(* SpecResolve: two transport clients that open, close, name session ids   *)
(* in setSDKOptions and resume envelopes; no turns.                        *)
(***************************************************************************)
ResolveRawIds == { <<>>, << "s-1" >>, << "s-2" >> }

NextResolve ==
  \/ \E c \in Clients : OnOpen(c)
  \/ \E c \in Clients : OnClose(c)
  \/ \E c \in Clients, id \in ResolveRawIds : OnSetSDKOptions(c, id, NoOptions)
  \/ \E c \in Clients, id \in ResolveRawIds : OnResume(c, id)
  \/ \E s \in Sessions : ManagerLoadSettles(s)

SpecResolve == InitManager /\ [][NextResolve]_vars

(***************************************************************************)
(* SpecTransport: two transport clients and the frames they send, well     *)
(* formed or not, with one turn and the transcript store behind them.      *)
(***************************************************************************)
BlankText == << " " >>

TransportEnvelopes ==
  { [Envelope("chat", <<>>, <<>>) EXCEPT !.json = FALSE],
    Envelope("ping", <<>>, <<>>),
    Envelope("resume", BlankText, <<>>),
    Envelope("resume", << "s-1" >>, <<>>) }
  \cup { [Envelope("toolResult", id, ApprovedText) EXCEPT !.toolUseId = t] :
           id \in { <<>>, << "s-1" >> }, t \in { BlankText, << "toolu_exit" >> } }
  \cup { [Envelope("chat", id, p) EXCEPT !.newConversation = n] :
           id \in { <<>>, << "s-1" >> }, p \in { BlankText, << "h", "i" >> },
           n \in BOOLEAN }

\* a frame arrives from c; one that would start a call beyond the bound of the
\* model is cut off
OnMessage(c, message) ==
  /\ Idle
  /\ wsState[c] = "open"
  /\ \E w \in { HandlerOnMessage(World, c, NextCall, message) } :
       /\ w.calls # calls => NextCall <= MaxManagerCalls
       /\ ManagerStep([Did(w, "frame", 0, c, NextCall,
                           RequestedSessionId(message.sessionId))
                         EXCEPT !.lastOp.frame = message])

NextTransport ==
  \/ \E c \in Clients : OnOpen(c)
  \/ \E c \in Clients : OnClose(c)
  \/ \E c \in Clients, m \in TransportEnvelopes : OnMessage(c, m)
  \/ Microtask
  \/ \E k \in CallIds : AgentYields(k)
  \/ \E k \in CallIds : StreamEnd(k)
  \/ \E s \in Sessions : ManagerLoadSettles(s)

SpecTransport == InitManager /\ [][NextTransport]_vars

(***************************************************************************)
(* SpecPackaged: the same clients in front of the copy of the handler in   *)
(* packages/websocket, which differs in how it handles chat frames.        *)
(***************************************************************************)
PackagedChats ==
  { Envelope("chat", id, p) :
      id \in { <<>>, << "s-1" >> }, p \in { BlankText, << "h", "i" >> } }

OnMessagePackaged(c, message) ==
  /\ Idle
  /\ wsState[c] = "open"
  /\ NextCall # 0 /\ NextCall <= MaxManagerCalls + 1
  /\ \E w \in { HandleChatMessagePackaged(World, c, NextCall, message.content,
                                          message.sessionId) } :
       /\ ManagerStep([Did(w, "frame", 0, c, NextCall,
                           RequestedSessionId(message.sessionId))
                         EXCEPT !.lastOp.frame = message])

NextPackaged ==
  \/ \E c \in Clients : OnOpen(c)
  \/ \E c \in Clients : OnClose(c)
  \/ \E c \in Clients, m \in PackagedChats : OnMessagePackaged(c, m)
  \/ Microtask
  \/ \E k \in CallIds : AgentYields(k)
  \/ \E k \in CallIds : StreamEnd(k)

SpecPackaged == InitManager /\ [][NextPackaged]_vars

(***************************************************************************)
(* SpecConversation: two transport clients and up to two chat frames that  *)
(* name no session id, with or without the newConversation flag, while the *)
(* agent answers.                                                          *)
(***************************************************************************)
ConversationChats ==
  { [Envelope("chat", <<>>, << "h", "i" >>) EXCEPT !.newConversation = n] :
      n \in BOOLEAN }

OnChatFrame(c, message) ==
  /\ Idle
  /\ wsState[c] = "open"
  /\ NextCall # 0 /\ NextCall <= MaxManagerCalls + 1
  /\ \E w \in { HandlerOnMessage(World, c, NextCall, message) } :
       /\ ManagerStep([Did(w, "frame", 0, c, NextCall,
                           RequestedSessionId(message.sessionId))
                         EXCEPT !.lastOp.frame = message])

NextConversation ==
  \/ \E c \in Clients : OnOpen(c)
  \/ \E c \in Clients : OnClose(c)
  \/ \E c \in Clients, m \in ConversationChats : OnChatFrame(c, m)
  \/ Microtask
  \/ \E k \in CallIds : AgentYields(k)
  \/ \E k \in CallIds : StreamEnd(k)

SpecConversation == InitManager /\ [][NextConversation]_vars

(***************************************************************************)
(* Turn serialisation.                                                     *)
(***************************************************************************)
InFlight(s) == { k \in CallIds : calls[k].s = s /\ calls[k].pc = "streaming" }
Started(k) == calls[k].pc \in {"streaming", "tail", "resolved"}
StreamTerminated(k) == calls[k].pc \in {"tail", "resolved"}
IsSendCall(k) == calls[k].kind = "send" \/ calls[k].viaShim

\* C1: at most one turn is in flight on a Session at any time, for any number of
\* send and sendToolResult calls: no turn starts (user message appended,
\* queryStream called) before the previous turn's stream has terminated.
C1_AtMostOneTurnInFlight ==
  \A s \in Sessions : Cardinality(InFlight(s)) <= 1

\* C2: when send is called twice in rapid succession on a Session (and nothing
\* else is called), the second call's user message is appended only after the
\* first turn's stream has terminated, and once the second turn has written to
\* the transcript the first never writes again.
C2_TwoSendsDoNotInterleave ==
  (/\ IsSendCall(1) /\ IsSendCall(2)
   /\ calls[1].s = calls[2].s
   /\ calls[3].pc = "unused")
  => /\ Started(2) => StreamTerminated(1)
     /\ \A i, j \in 1..Len(appendLog) :
          (i < j /\ appendLog[i] = 2) => appendLog[j] = 2

\* the second send was made while the first turn was in flight, waited, and
\* started its turn after the first stream had yielded a message and ended
C2_Witness ==
  /\ IsSendCall(1) /\ IsSendCall(2) /\ calls[3].pc = "unused"
  /\ calls[2].awaiting = 1
  /\ calls[2].pc = "streaming"
  /\ calls[1].yielded >= 1
  /\ appendLog = << 1, 1, 2 >>

(***************************************************************************)
(* Pending tool approval (checked under SpecPending).                      *)
(***************************************************************************)
InteractiveTools == {"ExitPlanMode", "AskUserQuestion"}
PlaceholderTexts == {ExitPlaceholder, AskPlaceholder}

\* the transcript of call k's Session just before k's user message was appended
PreTranscript(k) ==
  LET t == messageList[calls[k].s]
      at == { i \in 1..Len(t) : t[i].uuid = k }
  IN IF at = {} THEN t
     ELSE SubSeq(t, 1, (CHOOSE i \in at : \A j \in at : i <= j) - 1)

InteractiveUses(m) ==
  IF m.type # "assistant" THEN <<>>
  ELSE SelectSeq(m.content,
                 LAMBDA b : b.type = "tool_use" /\ b.name \in InteractiveTools)

\* the most recent interactive tool-use of t (at = 0: there is none)
LatestInteractive(t) ==
  LET carriers == { i \in 1..Len(t) : InteractiveUses(t[i]) # <<>> }
  IN IF carriers = {} THEN [at |-> 0, id |-> "", name |-> ""]
     ELSE LET i == CHOOSE x \in carriers : \A y \in carriers : y <= x
              b == InteractiveUses(t[i])[Len(InteractiveUses(t[i]))]
          IN [at |-> i, id |-> b.id, name |-> b.name]

\* the tool_result blocks of t that answer q, in transcript order
RECURSIVE ResultsFrom(_, _, _)
ResultsFrom(t, i, id) ==
  IF i > Len(t) THEN <<>>
  ELSE (IF t[i].type = "user"
        THEN SelectSeq(t[i].content,
                       LAMBDA b : b.type = "tool_result" /\ b.id = id)
        ELSE <<>>) \o ResultsFrom(t, i + 1, id)

Answers(t, q) == ResultsFrom(t, q.at + 1, q.id)

OnlyPlaceholderAnswer(t, q) ==
  /\ Len(Answers(t, q)) = 1
  /\ Answers(t, q)[1].is_error
  /\ Answers(t, q)[1].text \in PlaceholderTexts

OnlyDeclineAnswer(t, q) ==
  /\ Len(Answers(t, q)) = 1
  /\ Answers(t, q)[1].is_error
  /\ Answers(t, q)[1].text \notin PlaceholderTexts

\* pending as the specification defines it
StillPending(t, q) ==
  q.at # 0 /\ (Answers(t, q) = <<>> \/ OnlyPlaceholderAnswer(t, q))

\* call k is a send whose turn has started
SendStarted(k) ==
  /\ IsSendCall(k)
  /\ Started(k)
  /\ calls[k].userMessage # NoMsg

FirstBlock(k) == calls[k].userMessage.content[1]

\* C6: when the only result matching the most recent interactive tool-use is an
\* error carrying a placeholder text, the tool-use is reported pending (the plan
\* exit is found pending by the send that follows, the question is answered by
\* it); when it is an error carrying any other text, the tool-use is not pending
\* and the send that follows starts an ordinary text turn.
C6_PlaceholderVsDecline ==
  \A k \in CallIds :
    SendStarted(k) =>
      LET t == PreTranscript(k)
          q == LatestInteractive(t)
      IN /\ (q.at # 0 /\ OnlyPlaceholderAnswer(t, q)) =>
              IF q.name = "ExitPlanMode" THEN calls[k].pendingAtStart = q.id
              ELSE FirstBlock(k).type = "tool_result" /\ FirstBlock(k).id = q.id
         /\ (q.at # 0 /\ OnlyDeclineAnswer(t, q)) =>
              /\ FirstBlock(k).type = "text"
              /\ calls[k].pendingAtStart # q.id

\* the texts of PendingPrompts that C7 counts as affirmations
AffirmationInputs ==
  { << " ", "R", "U", "N", " " >>, << "E", "x", "e", "c", "u", "t", "e" >>,
    << "zhi", "xing" >>, << "yun", "xing" >> }

\* the most recent interactive tool-use of t is an ExitPlanMode that no
\* tool_result answers (so in particular when t ends in it)
UnansweredExit(t) ==
  /\ LatestInteractive(t).name = "ExitPlanMode"
  /\ Answers(t, LatestInteractive(t)) = <<>>

UnansweredExitId(t) == LatestInteractive(t).id

EndsInUnansweredExit(t) ==
  /\ UnansweredExit(t)
  /\ LatestInteractive(t).at = Len(t)

\* what a turn leaves behind: the transcript, the message handed to the agent,
\* the busy flag with its queued state update, and what the clients were sent
TurnEffect(w, k) ==
  [messageList |-> w.messageList, userMessage |-> w.calls[k].userMessage,
   resume |-> w.calls[k].resume, queryOptions |-> w.calls[k].queryOptions,
   pc |-> w.calls[k].pc, busyState |-> w.busyState,
   pendingStateUpdate |-> w.pendingStateUpdate, debounceTimer |-> w.debounceTimer,
   received |-> w.received, queryPromise |-> w.queryPromise,
   abortController |-> w.abortController, summary |-> w.summary,
   lastResultMessage |-> w.lastResultMessage, appendLog |-> w.appendLog]

\* the state a step leads to, as a world
WorldAfter ==
  [sessionId |-> sessionId', options |-> options', summary |-> summary',
   error |-> error', queryPromise |-> queryPromise',
   loadingPromise |-> loadingPromise', abortController |-> abortController',
   aborted |-> aborted', busyState |-> busyState', loadingState |-> loadingState',
   messageList |-> messageList', lastResultMessage |-> lastResultMessage',
   isLoaded |-> isLoaded', clients |-> clients',
   pendingStateUpdate |-> pendingStateUpdate', debounceTimer |-> debounceTimer',
   lastModifiedTime |-> lastModifiedTime', numSessions |-> numSessions',
   clientSessions |-> clientSessions', clientSessionId |-> clientSessionId',
   wsState |-> wsState', received |-> received', wsErrors |-> wsErrors',
   managerCalls |-> managerCalls', calls |-> calls', microtasks |-> microtasks', loadReads |-> loadReads',
   resumeLog |-> resumeLog', appendLog |-> appendLog', lastOp |-> lastOp', now |-> now']

\* in this step call k, a send, gets past `await this.queryPromise`: it is made on
\* an idle Session, or it is resumed after the turn it waited for
SendProceeds(k) ==
  \/ /\ calls[k].pc = "unused"
     /\ lastOp'.op = "send" /\ lastOp'.k = k
     /\ queryPromise[lastOp'.s] = 0
  \/ /\ calls[k].pc = "ready" /\ calls[k].kind = "send"
     /\ lastOp'.op = "continue" /\ lastOp'.k = k

\* sendToolResult(X, "User approved the plan", false) getting past the same await
\* in the same state
ApprovalProceeds(k, s, X) ==
  IF calls[k].pc = "unused"
  THEN SessionSendToolResult(World, s, k, << X >>, ApprovedText, FALSE)
  ELSE SendToolResultAfterWait(
         [World EXCEPT !.microtasks = Tail(@),
                       !.calls[k].toolUseId = << X >>,
                       !.calls[k].content = ApprovedText,
                       !.calls[k].isError = FALSE], k)

\* C7: when send(p), p an affirmation, proceeds on a Session whose transcript
\* holds an unanswered ExitPlanMode tool-use X as its latest interactive
\* tool-use, it has the effect of sendToolResult(X, "User approved the plan",
\* false): same transcript, same user message for the agent (a tool_result for X,
\* is_error false), same busy transitions and events.
C7_ApprovalRoundTrip ==
  [][ \A k \in CallIds :
        LET s == lastOp'.s
        IN (/\ SendProceeds(k)
            /\ calls'[k].prompt \in AffirmationInputs
            /\ UnansweredExit(messageList[s]))
           => /\ TurnEffect(WorldAfter, k)
                 = TurnEffect(ApprovalProceeds(k, s, UnansweredExitId(messageList[s])), k)
              /\ calls'[k].userMessage.content
                 = << ToolResultBlock(UnansweredExitId(messageList[s]),
                                      ApprovedText, FALSE) >> ]_vars

\* send(p), p an affirmation typed with other case or spaces, was called on an
\* idle Session whose transcript ends in an unanswered ExitPlanMode tool-use and
\* went out as its approval
C7_Witness ==
  /\ calls[1].viaShim
  /\ calls[1].pc = "streaming"
  /\ calls[1].prompt \in AffirmationInputs
  /\ calls[1].prompt # Trim(ToLowerCase(calls[1].prompt))
  /\ EndsInUnansweredExit(PreTranscript(1))
  /\ FirstBlock(1) = ToolResultBlock(UnansweredExitId(PreTranscript(1)),
                                     ApprovedText, FALSE)

\* the same for a send that had to wait for the turn in flight
C7_WitnessAfterWait ==
  /\ calls[2].viaShim
  /\ calls[2].awaiting = 1
  /\ calls[2].pc = "streaming"
  /\ calls[2].prompt \in AffirmationInputs
  /\ UnansweredExit(PreTranscript(2))
  /\ FirstBlock(2) = ToolResultBlock(UnansweredExitId(PreTranscript(2)),
                                     ApprovedText, FALSE)

\* C8: while the most recent interactive tool-use is a pending AskUserQuestion,
\* send(text) starts a turn whose user message is a tool_result block for that
\* tool-use with the text as content and is_error false.
C8_QuestionAnsweredByText ==
  \A k \in CallIds :
    SendStarted(k) =>
      LET t == PreTranscript(k)
          q == LatestInteractive(t)
      IN (q.name = "AskUserQuestion" /\ StillPending(t, q)) =>
           /\ FirstBlock(k).type = "tool_result"
           /\ FirstBlock(k).id = q.id
           /\ FirstBlock(k).text \in {calls[k].prompt, Trim(calls[k].prompt)}
           /\ ~ FirstBlock(k).is_error

\* C9: while an ExitPlanMode tool-use is pending, send("ju jue") starts a turn
\* whose user message is a tool_result block for it with is_error true.
C9_RejectionIsToolResult ==
  \A k \in CallIds :
    SendStarted(k) =>
      LET t == PreTranscript(k)
          q == LatestInteractive(t)
      IN (/\ Trim(calls[k].prompt) = << "ju", "jue" >>
          /\ q.name = "ExitPlanMode"
          /\ StillPending(t, q)) =>
           /\ FirstBlock(k).type = "tool_result"
           /\ FirstBlock(k).id = q.id
           /\ FirstBlock(k).is_error

(***************************************************************************)
(* Resume (checked under SpecResume).                                      *)
(***************************************************************************)
\* this step is the call resumeFrom(sid) on Session s
IsResumeStep(s, sid) ==
  lastOp'.op = "resumeFrom" /\ lastOp'.s = s /\ lastOp'.id = sid

\* after this step the last two resumeFrom calls on s were both for sid
SecondInARow(s, sid) ==
  /\ Len(resumeLog'[s]) = 2
  /\ resumeLog'[s][1].id = sid
  /\ resumeLog'[s][2].id = sid

\* the store reads the two calls made
ReadsOfBoth(s) ==
  (IF resumeLog'[s][1].read THEN 1 ELSE 0) + (IF resumeLog'[s][2].read THEN 1 ELSE 0)

NoRead == [sid \in SessionIds |-> 0]

LoadedFor(s, sid) == sessionId[s] = sid /\ isLoaded[s]

SubscribedTo(c) == { s \in Sessions : c \in clients[s] }

\* C3: every client is in the subscriber set of at most one Session.
C3_AtMostOneSubscription ==
  \A c \in Clients : Cardinality(SubscribedTo(c)) <= 1

\* C4: once SessionManager.unsubscribe(client) has returned (the socket closed),
\* the client is in no subscriber set and has no binding; and no client is ever
\* in one of the two structures without being in the other.
C4_UnsubscribeRemovesBoth ==
  \A c \in Clients :
    /\ (lastOp.op = "close" /\ lastOp.c = c)
         => SubscribedTo(c) = {} /\ clientSessions[c] = 0
    /\ (SubscribedTo(c) = {}) <=> (clientSessions[c] = 0)

\* C5: the events a step delivers to a client come from Sessions that have the
\* client in their subscriber set, and unsubscribing a client (its socket
\* closes) changes no other client's subscriptions or binding and delivers
\* nothing to it.
C5_BroadcastIsolation ==
  [][ /\ \A c \in Clients : \A i \in 1..Len(received'[c]) :
           c \in clients'[received'[c][i].session]
      /\ \A a \in Clients :
           (lastOp'.op = "close" /\ lastOp'.c = a) =>
             \A b \in Clients \ {a} :
               /\ \A s \in Sessions : (b \in clients'[s]) <=> (b \in clients[s])
               /\ clientSessions'[b] = clientSessions[b]
               /\ received'[b] = <<>> ]_vars

\* two clients are subscribed to different Sessions and the last step broadcast
\* a message of one Session: its subscriber got it, the other client got nothing
C5_Witness ==
  \E a, b \in Clients, x, y \in Sessions :
    /\ a # b /\ x # y
    /\ SubscribedTo(a) = {x} /\ SubscribedTo(b) = {y}
    /\ \E i \in 1..Len(received[a]) :
         received[a][i].type = "message_added" /\ received[a][i].session = x
    /\ received[b] = <<>>

(***************************************************************************)
(* Transcript loads (checked under SpecLoad).                              *)
(***************************************************************************)
\* the events of one type among those the last step delivered to c
EventsOfType(evs, type) == SelectSeq(evs, LAMBDA e : e.type = type)

\* C11: when loadMessages answers with zero messages, the step delivers no
\* messages_updated event to any client, whatever the Session holds in memory.
C11_EmptyLoadSendsNoUpdate ==
  [][ lastOp'.op = "loadEmpty" =>
        \A c \in Clients : EventsOfType(received'[c], "messages_updated") = <<>> ]_vars

\* an empty answer has just settled on a Session with a subscriber while the
\* turn that put the user message in memory was still streaming
C11_Witness ==
  /\ lastOp.op = "loadEmpty" /\ lastOp.s = 1
  /\ clients[1] # {}
  /\ \E k \in CallIds : calls[k].s = 1 /\ calls[k].pc = "streaming"
  /\ loadingPromise[1] = NoId
  /\ \A c \in Clients : received[c] = <<>>

\* C12: when loadMessages rejects, the load still settles (the Session has no
\* load in flight any more), the failure is in the error field, loadingState
\* is false, the transcript is the one before and the step delivers neither
\* messages_updated nor message_added.
C12_LoadFailureContained ==
  [][ lastOp'.op = "loadFailed" =>
        LET s == lastOp'.s IN
          /\ loadingPromise'[s] = NoId
          /\ error'[s] = LoadError
          /\ loadingState'[s] = FALSE
          /\ messageList'[s] = messageList[s]
          /\ isLoaded'[s] = isLoaded[s]
          /\ \A c \in Clients :
               /\ EventsOfType(received'[c], "messages_updated") = <<>>
               /\ EventsOfType(received'[c], "message_added") = <<>> ]_vars

\* a load has just failed on a Session with a subscriber and a transcript
C12_Witness ==
  /\ lastOp.op = "loadFailed" /\ lastOp.s = 1
  /\ clients[1] # {}
  /\ messageList[1] # <<>>
  /\ error[1] = LoadError
  /\ ~ loadingState[1]

LoadOps == { "resumeFrom", "loadEmpty", "loadMessages", "loadFailed" }
TurnOps == { "send", "sendToolResult", "continue", "message", "streamEnd", "streamThrow" }

\* C16: a step of a transcript load (its start, or its end with messages, with
\* zero messages or with a failure) leaves busyState as it was, and a step of
\* a turn leaves loadingState as it was.
C16_BusyLoadingOrthogonal ==
  [][ /\ lastOp'.op \in LoadOps => busyState' = busyState
      /\ lastOp'.op \in TurnOps => loadingState' = loadingState ]_vars

(***************************************************************************)
(* Subscribers of one Session (checked under SpecLoad).                    *)
(***************************************************************************)
\* the messages of the message_added events of Session s among evs, in order
AddedFrom(evs, s) ==
  LET added == SelectSeq(evs, LAMBDA e : e.type = "message_added" /\ e.session = s)
  IN [i \in 1..Len(added) |-> added[i].message]

\* what a step appended to the transcript of s
AppendedTo(s) == SubSeq(messageList'[s], Len(messageList[s]) + 1, Len(messageList'[s]))

\* C18: a client subscribed to a Session before and after a step receives in
\* that step exactly the messages the step appended to the transcript, one
\* message_added each, in append order; a step that appends nothing (a load
\* replaces the transcript) delivers no message_added.
C18_MessageAddedFollowsAppends ==
  [][ \A s \in Sessions : \A c \in Clients :
        (c \in clients[s] /\ c \in clients'[s]) =>
          IF lastOp'.op \in TurnOps
          THEN /\ Len(messageList'[s]) >= Len(messageList[s])
               /\ SubSeq(messageList'[s], 1, Len(messageList[s])) = messageList[s]
               /\ AddedFrom(received'[c], s) = AppendedTo(s)
          ELSE AddedFrom(received'[c], s) = <<>> ]_vars

\* both clients are subscribed and the stream's message, appended after the
\* user message, has reached each of them as one message_added
C18_Witness ==
  /\ lastOp.op = "message" /\ lastOp.s = 1
  /\ clients[1] = Clients
  /\ Len(messageList[1]) >= 2
  /\ \A c \in Clients :
       AddedFrom(received[c], 1) = << messageList[1][Len(messageList[1])] >>

\* every variable except the observations of the last step
SessionFields ==
  << sessionId, options, summary, error, queryPromise, loadingPromise,
     abortController, aborted, busyState, loadingState, messageList,
     lastResultMessage, isLoaded, clients, pendingStateUpdate, debounceTimer,
     lastModifiedTime, numSessions, clientSessions, clientSessionId, wsState,
     calls, microtasks, now >>

\* what subscribe sends to a new subscriber of s, from the state before the call
SubscribeGreeting(s) ==
  << Event("session_state_changed", s, sessionId[s], NoMsg, <<>>,
           [keys |-> StateKeys, isBusy |-> busyState[s],
            isLoading |-> loadingState[s],
            options |-> BuildEffectiveOptions(World, s)]) >>
  \o (IF isLoaded[s]
      THEN << Event("messages_updated", s, sessionId[s], NoMsg, messageList[s],
                    NoUpdate) >>
      ELSE <<>>)

\* C19: subscribe(client) of a client not yet subscribed adds it and sends it
\* the state snapshot and, when a transcript is loaded, messages_updated with
\* the whole transcript, and nothing to anyone else; subscribe of a subscribed
\* client changes nothing and sends nothing; unsubscribe removes the client,
\* sends nothing, and changes nothing when the client was not subscribed.
C19_SubscribeIdempotent ==
  [][ \A s \in Sessions : \A c \in Clients :
        /\ (lastOp'.op = "subscribe" /\ lastOp'.s = s /\ lastOp'.c = c) =>
             IF c \in clients[s]
             THEN /\ SessionFields' = SessionFields
                  /\ \A d \in Clients : received'[d] = <<>>
             ELSE /\ clients'[s] = clients[s] \cup {c}
                  /\ received'[c] = SubscribeGreeting(s)
                  /\ \A d \in Clients \ {c} : received'[d] = <<>>
        /\ (lastOp'.op = "unsubscribe" /\ lastOp'.s = s /\ lastOp'.c = c) =>
             /\ clients'[s] = clients[s] \ {c}
             /\ \A d \in Clients : received'[d] = <<>>
             /\ c \notin clients[s] => SessionFields' = SessionFields ]_vars

\* a client has just subscribed to a loaded Session next to another subscriber
\* and got the snapshot and the transcript
C19_Witness ==
  \E c \in Clients :
    /\ lastOp.op = "subscribe" /\ lastOp.s = 1 /\ lastOp.c = c
    /\ isLoaded[1] /\ messageList[1] # <<>>
    /\ clients[1] = Clients
    /\ Len(received[c]) = 2
    /\ received[c][1].type = "session_state_changed"
    /\ received[c][2].type = "messages_updated"
    /\ received[c][2].messages = messageList[1]

(***************************************************************************)
(* Tool results with a blank id (checked under SpecToolResult).            *)
(***************************************************************************)
BlankIdCall(c) == c.kind = "toolResult" /\ Trim(c.toolUseId) = <<>>

\* C13: a sendToolResult call whose toolUseId is empty or only white space
\* rejects, at once when no turn is in flight and otherwise as soon as it
\* resumes from waiting for that turn; the step in which it rejects appends no
\* message, delivers no event and leaves busyState and the turn in flight as
\* they were; the call never starts a stream and stays rejected.
C13_BlankToolUseIdRejected ==
  [][ \A k \in CallIds :
        BlankIdCall(calls'[k]) =>
          /\ calls'[k].pc \in { "awaitQuery", "ready", "rejected" }
          /\ (calls[k].pc = "unused" /\ queryPromise[calls'[k].s] = 0)
               => calls'[k].pc = "rejected"
          /\ (lastOp'.op = "continue" /\ lastOp'.k = k) => calls'[k].pc = "rejected"
          /\ (calls'[k].pc = "rejected" /\ calls[k].pc # "rejected") =>
               /\ messageList' = messageList
               /\ busyState' = busyState
               /\ queryPromise' = queryPromise
               /\ abortController' = abortController
               /\ appendLog' = appendLog
               /\ \A c \in Clients : received'[c] = <<>>
               /\ calls'[k].yielded = 0 /\ calls'[k].userMessage = NoMsg
          /\ calls[k].pc = "rejected" => calls'[k] = calls[k] ]_vars

\* a call with a white-space id waited for the turn in flight and has just
\* rejected, on a Session with a subscriber
C13_Witness ==
  \E k \in CallIds :
    /\ lastOp.op = "continue" /\ lastOp.k = k
    /\ calls[k].kind = "toolResult" /\ calls[k].toolUseId = << " " >>
    /\ calls[k].awaiting # 0
    /\ calls[k].pc = "rejected"
    /\ clients[1] = { "c1" }

(***************************************************************************)
(* Option merge (checked under SpecOptions).                               *)
(***************************************************************************)
\* { ...createDefaultOptions(o.cwd), ...o }
EffectiveOf(o) == Spread(CreateDefaultOptions(o.cwd), o)

\* the key is there and its value is undefined, empty or blank
GivenBlankCwd(opts) ==
  opts.cwd # AbsentV /\ (opts.cwd = UndefinedV \/ Trim(opts.cwd) = <<>>)

\* C14: a setSDKOptions call given cwd as undefined, empty or blank leaves the
\* Session's options, its effective options and the options it reports to
\* subscribers without cwd, whatever cwd was before; and a key given as
\* undefined has no value in the effective options afterwards.
C14_ExplicitUndefinedClears ==
  [][ lastOp'.op = "setOptions" =>
        LET s == lastOp'.s
            opts == lastOp'.args
            eff == EffectiveOf(options'[s])
        IN /\ GivenBlankCwd(opts) =>
                /\ options'[s].cwd = AbsentV
                /\ eff.cwd = AbsentV
                /\ "options" \in pendingStateUpdate'[s].keys
                /\ pendingStateUpdate'[s].options.cwd = AbsentV
           /\ \A k \in OptionKeys : opts[k] = UndefinedV => IsMissing(eff[k]) ]_vars

\* setSDKOptions({ cwd: undefined }) has just returned on a Session whose cwd
\* was "/a" and whose model was set: cwd is gone and the model is kept
C14_Witness ==
  /\ lastOp.op = "setOptions"
  /\ lastOp.before.cwd = << "/a" >> /\ lastOp.before.model = << "m1" >>
  /\ lastOp.args = [NoOptions EXCEPT !.cwd = UndefinedV]
  /\ options[1].cwd = AbsentV
  /\ EffectiveOf(options[1]).cwd = AbsentV
  /\ options[1].model = << "m1" >>

(***************************************************************************)
(* One turn and interrupt (checked under SpecTurn).                        *)
(***************************************************************************)
\* call k starts its turn in this step
TurnStarts(k) == calls[k].pc \in { "unused", "ready" } /\ calls'[k].pc = "streaming"

\* the message a "message" step of Session s has processed
Processed(s) == messageList'[s][Len(messageList'[s])]

\* C15: the step in which send starts its turn appends the user message built
\* from the prompt, delivers it to every subscriber as message_added and sets
\* busy, with no stream message processed yet; every stream message is
\* processed with that user message in the transcript; after a system/init
\* message busy is true, after a result message busy is false; and when the
\* turn completes lastModifiedTime is set to the current time.
C15_SingleTurnScenario ==
  [][ \A k \in CallIds :
        LET s == calls'[k].s IN
          /\ (TurnStarts(k) /\ calls'[k].kind = "send") =>
               /\ calls'[k].userMessage =
                    Msg("user", "", "", << TextBlock(calls'[k].prompt) >>, FALSE, "", k)
               /\ messageList'[s] = Append(messageList[s], calls'[k].userMessage)
               /\ \A c \in clients[s] :
                    received'[c] = << Event("message_added", s, sessionId[s],
                                            calls'[k].userMessage, <<>>, NoUpdate) >>
               /\ busyState'[s]
               /\ calls'[k].yielded = 0
          /\ (lastOp'.op = "message" /\ lastOp'.k = k) =>
               /\ \E i \in 1..Len(messageList[s]) : messageList[s][i] = calls[k].userMessage
               /\ (Processed(s).type = "system" /\ Processed(s).subtype = "init")
                    => busyState'[s]
               /\ Processed(s).type = "result" => ~ busyState'[s]
          /\ (lastOp'.op = "continue" /\ lastOp'.k = k /\ calls[k].pc = "tail") =>
               /\ lastModifiedTime'[s] = now
               /\ calls'[k].pc = "resolved" ]_vars

\* send("hello") on a fresh Session with a subscriber has resolved after the
\* stream gave system/init and then result, at a later time than it started
C15_Witness ==
  /\ lastOp.op = "continue" /\ lastOp.k = 1
  /\ calls[1].pc = "resolved" /\ calls[1].prompt = HelloPrompt
  /\ calls[2].pc = "unused"
  /\ clients[1] = { "c1" }
  /\ aborted = {}
  /\ messageList[1] = << calls[1].userMessage, SystemInit("s-1", "/a"),
                         ResultMsg("s-1", FALSE) >>
  /\ ~ busyState[1]
  /\ now > 0 /\ lastModifiedTime[1] = now

\* C17: interrupt() marks the cancellation token of the turn in flight as
\* aborted and leaves busyState false in the same step, in which no call
\* moves, the turn stays in flight and nothing is appended or delivered; a
\* message the stream of an interrupted turn yields afterwards is appended to
\* the transcript and delivered to every subscriber as message_added.
C17_InterruptImmediate ==
  [][ /\ lastOp'.op = "interrupt" =>
           LET s == lastOp'.s IN
             /\ ~ busyState'[s]
             /\ queryPromise[s] # 0 => queryPromise[s] \in aborted'
             /\ calls' = calls
             /\ queryPromise' = queryPromise
             /\ messageList' = messageList
             /\ \A c \in Clients : received'[c] = <<>>
      /\ \A k \in CallIds :
           (lastOp'.op = "message" /\ lastOp'.k = k /\ k \in aborted) =>
             LET s == calls[k].s IN
               /\ Len(messageList'[s]) = Len(messageList[s]) + 1
               /\ SubSeq(messageList'[s], 1, Len(messageList[s])) = messageList[s]
               /\ \A c \in clients[s] : AddedFrom(received'[c], s) = AppendedTo(s) ]_vars

\* the turn in flight was interrupted, is still in flight, and its stream has
\* just yielded a message that went to the transcript and to the subscriber
C17_Witness ==
  \E k \in CallIds :
    /\ lastOp.op = "message" /\ lastOp.k = k
    /\ k \in aborted
    /\ queryPromise[1] = k /\ calls[k].pc = "streaming"
    /\ clients[1] = { "c1" }
    /\ AddedFrom(received["c1"], 1) = << messageList[1][Len(messageList[1])] >>

(***************************************************************************)
(* Session resolution (checked under SpecResolve).                         *)
(***************************************************************************)
Registered == 1..numSessions
WithId(c) == { s \in Registered : clientSessionId[c] # NoId /\ sessionId[s] = clientSessionId[c] }
WithSubscriber(c) == { s \in Registered : c \in clients[s] }

\* the Session the resolution order (a), (b), (c), (d) gives for client c;
\* numSessions + 1 is the Session created in case (d)
ExpectedSession(c) ==
  IF WithId(c) # {} THEN FirstOf(WithId(c))
  ELSE IF clientSessions[c] # 0 THEN clientSessions[c]
  ELSE IF WithSubscriber(c) # {} THEN FirstOf(WithSubscriber(c))
  ELSE numSessions + 1

\* C20: in every reachable state and for every client, getOrCreateSession
\* returns the Session of the first applicable case: id match, last binding,
\* subscriber set, else a new registered Session that has the client's
\* non-empty id and a load in flight for it; it changes nothing but the
\* binding in cases (a)-(c); and after it, and after the Manager's subscribe,
\* setSDKOptions, sendMessage and sendToolResult, the client is bound to that
\* Session.
C20_ResolutionOrder ==
  \A c \in Clients :
    LET e == ExpectedSession(c)
        r == GetOrCreateSession(World, c)
    IN /\ r.clientSessions[c] = e
       /\ e <= numSessions => r = [World EXCEPT !.clientSessions[c] = e]
       /\ e > numSessions =>
            /\ r.numSessions = e
            /\ r.sessionId[e] = clientSessionId[c]
            /\ r.clients[e] = {}
            /\ IF clientSessionId[c] # NoId
               THEN r.loadingPromise[e] = clientSessionId[c] /\ r.loadingState[e]
               ELSE r.loadingPromise[e] = NoId /\ ~ r.loadingState[e]
       /\ ManagerSubscribe(World, c).clientSessions[c] = e
       /\ c \in ManagerSubscribe(World, c).clients[e]
       /\ ManagerSetSDKOptions(World, c, NoOptions).clientSessions[c] = e
       /\ NextCall # 0 =>
            /\ ManagerSendMessage(World, c, NextCall, << "h", "i" >>).clientSessions[c] = e
            /\ ManagerSendToolResult(World, c, NextCall, << "toolu_exit" >>,
                                     ApprovedText, FALSE).clientSessions[c] = e

\* a client that is still in the subscriber set of one Session has just sent
\* setSDKOptions naming the id of another registered Session, and is bound to
\* that one
C20_Witness ==
  \E c \in Clients :
    /\ lastOp.op = "setSDKOptions" /\ lastOp.c = c /\ lastOp.id # NoId
    /\ clientSessionId[c] = lastOp.id
    /\ WithId(c) = { clientSessions[c] }
    /\ WithSubscriber(c) # {} /\ WithSubscriber(c) \cap WithId(c) = {}

(***************************************************************************)
(* Frames the handler rejects (checked under SpecTransport).               *)
(***************************************************************************)
KnownTypes == { "chat", "setSDKOptions", "resume", "toolResult", "startConsultation" }

\* the frame is not JSON, or its type is not a known one, or it is a chat with
\* blank content, a tool result with a blank tool-use id or a resume with a
\* blank session id
Malformed(m) ==
  \/ ~ m.json
  \/ m.type \notin KnownTypes
  \/ m.type = "chat" /\ Trim(m.content) = <<>>
  \/ m.type = "toolResult" /\ Trim(m.toolUseId) = <<>>
  \/ m.type = "resume" /\ Trim(m.sessionId) = <<>>

\* C21: a step that handles a malformed frame sends exactly one error envelope,
\* to the sender only, calls no SessionManager method, and leaves every
\* Session's transcript, busy state, subscriber set and session id, the set of
\* registered Sessions, the bindings and the calls as they were.
C21_MalformedFrameRejected ==
  [][(lastOp'.op = "frame" /\ Malformed(lastOp'.frame)) =>
       /\ Len(wsErrors'[lastOp'.c]) = 1
       /\ \A c \in Clients \ {lastOp'.c} : wsErrors'[c] = <<>>
       /\ managerCalls' = <<>>
       /\ messageList' = messageList
       /\ busyState' = busyState
       /\ clients' = clients
       /\ sessionId' = sessionId
       /\ numSessions' = numSessions
       /\ clientSessions' = clientSessions
       /\ calls' = calls
       /\ \A c \in Clients : received'[c] = <<>>]_vars

\* a chat frame with blank content and no session id has just been rejected,
\* sent by a client that has a session id and whose Session is busy with a turn
C21_Witness ==
  /\ lastOp.op = "frame"
  /\ lastOp.frame.json /\ lastOp.frame.type = "chat"
  /\ Trim(lastOp.frame.content) = <<>> /\ lastOp.frame.sessionId = <<>>
  /\ wsErrors[lastOp.c] = << "empty_message" >>
  /\ clientSessionId[lastOp.c] # NoId
  /\ \E s \in 1..numSessions : lastOp.c \in clients[s] /\ busyState[s]

(***************************************************************************)
(* Chat frames (checked under SpecTransport and SpecPackaged).             *)
(***************************************************************************)
ManagerCall(name, c, sid) == [op |-> name, c |-> c, sessionId |-> sid]

\* the step handles a well-formed chat frame
ChatHandled ==
  /\ lastOp'.op = "frame"
  /\ lastOp'.frame.json /\ lastOp'.frame.type = "chat"
  /\ Trim(lastOp'.frame.content) # <<>>

\* C22: a step that handles a chat frame without a session id, sent by a client
\* that has a session id, calls SessionManager.unsubscribe once while the
\* client still has that id, then setSDKOptions once and sendMessage once with
\* the client's id cleared, and nothing else; a step that handles a chat frame
\* with a session id calls sendMessage once with the client's id set to the
\* carried id, and nothing else.
C22_ChatFrameCalls ==
  [][ChatHandled =>
       LET c == lastOp'.c
       IN /\ (lastOp'.id = NoId /\ clientSessionId[c] # NoId) =>
               managerCalls' = << ManagerCall("unsubscribe", c, clientSessionId[c]),
                                  ManagerCall("setSDKOptions", c, NoId),
                                  ManagerCall("sendMessage", c, NoId) >>
          /\ lastOp'.id # NoId =>
               managerCalls' = << ManagerCall("sendMessage", c, lastOp'.id) >>]_vars

(***************************************************************************)
(* Turns that fail (checked under SpecFailure).                            *)
(***************************************************************************)
\* the positions in the transcript of the result messages of call k's turn
TurnResults(k) ==
  { i \in 1..Len(appendLog) :
      appendLog[i] = k /\ messageList[calls[k].s][i].type = "result" }

\* the turn of call k has received a result, and its last one carries an error
EndedOnErrorResult(k) ==
  /\ TurnResults(k) # {}
  /\ \E i \in TurnResults(k) :
       /\ \A j \in TurnResults(k) : j <= i
       /\ messageList[calls[k].s][i].is_error

\* C23: a step in which a turn's stream ends or throws leaves the Session not
\* busy and with no query promise, and the turn's call goes on to resolve; no
\* send or sendToolResult call is ever rejected; and the step sets the error
\* field to the thrown error, except that it leaves the field as it was when
\* the stream ended normally or when the thrown error is the process-exit
\* error and the last result message of that turn carried an error.
C23_TurnFailureHandling ==
  [][/\ lastOp'.op \in { "streamEnd", "streamThrow" } =>
          LET k == lastOp'.k
              s == lastOp'.s
          IN /\ ~ busyState'[s]
             /\ queryPromise'[s] = 0
             /\ calls'[k].pc = "tail"
             /\ \E i \in 1..Len(microtasks') : microtasks'[i] = k
             /\ error'[s] =
                  IF /\ lastOp'.op = "streamThrow"
                     /\ ~ (lastOp'.id = ExitError /\ EndedOnErrorResult(k))
                  THEN lastOp'.id ELSE error[s]
     /\ \A k \in CallIds :
          /\ calls'[k].pc # "rejected"
          /\ (calls[k].pc = "tail" /\ microtasks # <<>> /\ Head(microtasks) = k)
               => calls'[k].pc = "resolved"]_vars

\* a stream that had yielded a result carrying an error has just thrown the
\* process-exit error, and the Session's error field is still empty
C23_Witness ==
  /\ lastOp.op = "streamThrow" /\ lastOp.id = ExitError
  /\ EndedOnErrorResult(lastOp.k)
  /\ error[lastOp.s] = NoError
  /\ ~ busyState[lastOp.s]

(***************************************************************************)
(* Debounced state events (checked under SpecDebounce).                    *)
(***************************************************************************)
\* the fields of the Session state that the step changes
ChangedFields(s) ==
  { key \in StateKeys :
      GetSessionStateSnapshot(World, s)[key] # GetSessionStateSnapshot(WorldAfter, s)[key] }

StateEvents(evs, s) ==
  SelectSeq(evs, LAMBDA e : e.type = "session_state_changed" /\ e.session = s)

\* C24: a step other than the firing of the debounce timer sends no
\* session_state_changed event (but the snapshot subscribe gives the new
\* subscriber); every field of the Session state it changes is
\* pending afterwards, with the timer armed, and every pending field holds the
\* field's value in the state the step leads to.  When the timer fires every
\* subscriber receives one session_state_changed event carrying the pending
\* update, and afterwards nothing is pending and no timer is armed.
C24_DebouncedStateEvents ==
  [][\A s \in 1..numSessions :
       /\ ~ (lastOp'.op = "flush" /\ lastOp'.s = s) =>
            /\ \A c \in Clients :
                 StateEvents(received'[c], s) = <<>>
                   \/ (lastOp'.op = "subscribe" /\ lastOp'.c = c)
            /\ ChangedFields(s) \subseteq pendingStateUpdate'[s].keys
            /\ pendingStateUpdate'[s].keys # {} => debounceTimer'[s]
            /\ \A key \in pendingStateUpdate'[s].keys :
                 pendingStateUpdate'[s][key] = GetSessionStateSnapshot(WorldAfter, s)[key]
       /\ (lastOp'.op = "flush" /\ lastOp'.s = s) =>
            /\ pendingStateUpdate[s].keys # {}
            /\ \A c \in clients[s] :
                 received'[c] = << Event("session_state_changed", s, sessionId[s], NoMsg,
                                        <<>>, pendingStateUpdate[s]) >>
            /\ pendingStateUpdate'[s] = NoUpdate
            /\ ~ debounceTimer'[s]]_vars

(***************************************************************************)
(* Multi-turn continuity (checked under SpecFailure).                      *)
(***************************************************************************)
\* the resume option of the queryStream call of call k
CarriedResume(k) == calls'[k].queryOptions.resume

\* a "message" step takes the Session's id from the message when it has one
IdFromStream ==
  lastOp'.op = "message" =>
    sessionId'[lastOp'.s] = IF Processed(lastOp'.s).session_id # ""
                            THEN Processed(lastOp'.s).session_id
                            ELSE sessionId[lastOp'.s]

\* C25: a turn that starts while the Session's id is known calls queryStream
\* with resume equal to that id, a turn that starts while the id is null calls
\* it without resume; and a message of the stream that has a session_id makes
\* it the Session's id.
C25_ResumeIsSessionId ==
  [][/\ \A k \in CallIds :
          TurnStarts(k) =>
            IF sessionId[calls'[k].s] # NoId
            THEN CarriedResume(k) = << sessionId[calls'[k].s] >>
            ELSE IsMissing(CarriedResume(k))
     /\ IdFromStream]_vars

\* C25 as amended: a turn that starts while the id is null calls queryStream
\* with the resume option the Session's options hold, none when they hold none.
C25_ResumeIsSessionIdOrOption ==
  [][/\ \A k \in CallIds :
          TurnStarts(k) =>
            CarriedResume(k) = IF sessionId[calls'[k].s] # NoId
                               THEN << sessionId[calls'[k].s] >>
                               ELSE options[calls'[k].s].resume
     /\ IdFromStream]_vars

\* the second turn has started with the id the first turn's stream announced,
\* on a Session that had no id when the first turn started
C25_Witness ==
  /\ calls[1].resume = NoId
  /\ calls[2].pc = "streaming"
  /\ calls[2].resume = "s-1"
  /\ sessionId[1] = "s-1"
  /\ \E i \in 1..Len(appendLog) :
       appendLog[i] = 1 /\ messageList[1][i].session_id = "s-1"

(***************************************************************************)
(* The transcript a client rebuilds (checked under SpecLoad).              *)
(***************************************************************************)
\* what a client does with an event: messages_updated replaces its list,
\* message_added appends to it
ApplyEvent(view, e) ==
  IF e.type = "messages_updated" THEN e.messages
  ELSE IF e.type = "message_added" THEN Append(view, e.message)
  ELSE view

RECURSIVE Replay(_, _)
Replay(view, evs) ==
  IF evs = <<>> THEN view ELSE Replay(ApplyEvent(view, Head(evs)), Tail(evs))

\* C26: for a client subscribed to a Session before and after a step, replaying
\* the events the step sent it on the transcript the Session had before the
\* step gives the transcript the Session has after it; so the list of a client
\* subscribed since the Session was created always equals the transcript.
C26_ViewMatchesTranscript ==
  [][\A s \in 1..numSessions : \A c \in clients[s] \cap clients'[s] :
       Replay(messageList[s], SelectSeq(received'[c], LAMBDA e : e.session = s))
         = messageList'[s]]_vars

(***************************************************************************)
(* Approved plans (checked under SpecPending).                             *)
(***************************************************************************)
\* the position of the most recent message with a plan-exit tool-use, 0 if none
LatestExitAt(t) ==
  LET carriers == { i \in 1..Len(t) : ExitToolOf(t[i]) # <<>> }
  IN IF carriers = {} THEN 0 ELSE CHOOSE x \in carriers : \A y \in carriers : y <= x

\* a tool-result without the error flag for the most recent plan-exit tool-use
\* appears after it in transcript t
ApprovedAfter(t) ==
  /\ LatestExitAt(t) # 0
  /\ \E j \in (LatestExitAt(t) + 1)..Len(t) :
       /\ t[j].type = "user"
       /\ \E n \in 1..Len(t[j].content) :
            /\ t[j].content[n].type = "tool_result"
            /\ t[j].content[n].id = ExitToolOf(t[LatestExitAt(t)])[1].id
            /\ ~ t[j].content[n].is_error

\* C27: when a send of "execute" or "run" (in any case, with blanks around it)
\* gets past its wait on a Session whose transcript holds an approving result
\* for the most recent plan-exit tool-use after it, the plan exit is not found
\* pending and the call starts a turn with the prompt as a text message.
C27_ApprovalIsFinal ==
  [][\A k \in CallIds :
       (/\ SendProceeds(k)
        /\ IsAffirmation(calls'[k].prompt)
        /\ ApprovedAfter(messageList[calls'[k].s]))
       => /\ calls'[k].pendingAtStart = ""
          /\ ~ calls'[k].viaShim
          /\ calls'[k].pc = "streaming"
          /\ calls'[k].userMessage.content[1].type = "text"]_vars

(***************************************************************************)
(* Progress (checked under SpecProgress).                                  *)
(***************************************************************************)
CallMade(k) == calls[k].pc # "unused"
CallResolved(k) == calls[k].pc = "resolved"

\* every call made has settled and no load is in flight
Quiescent(s) ==
  /\ \A k \in CallIds :
       (CallMade(k) /\ calls[k].s = s) => calls[k].pc \in { "resolved", "rejected" }
  /\ loadingPromise[s] = NoId

ResumeHandled ==
  /\ lastOp'.op = "frame"
  /\ lastOp'.frame.json
  /\ lastOp'.frame.type = "resume"
  /\ RequestedSessionId(lastOp'.frame.sessionId) # NoId

\* Session s holds a non-empty transcript of a conversation other than target
HoldsOtherConversation(s, target) ==
  /\ s <= numSessions
  /\ messageList[s] # <<>>
  /\ sessionId[s] # target

\* C29: handling a resume frame for session id W leaves the session id and the
\* transcript of every Session that holds a non-empty transcript of another
\* conversation as they were, and changes the session id of no other client
\* subscribed to such a Session.
C29_ResumeLeavesOthers ==
  [][ResumeHandled =>
       \A s \in Sessions :
         HoldsOtherConversation(s, RequestedSessionId(lastOp'.frame.sessionId)) =>
           /\ sessionId'[s] = sessionId[s]
           /\ messageList'[s] = messageList[s]
           /\ \A c \in clients[s] \ {lastOp'.c} :
                clientSessionId'[c] = clientSessionId[c]]_vars

(***************************************************************************)
(* New conversations (checked under SpecConversation).                     *)
(***************************************************************************)
\* the step handles a chat frame with content and without a session id
NewChatHandled ==
  /\ lastOp'.op = "frame"
  /\ lastOp'.frame.json
  /\ lastOp'.frame.type = "chat"
  /\ Trim(lastOp'.frame.content) # <<>>
  /\ RequestedSessionId(lastOp'.frame.sessionId) = NoId

\* client c is subscribed to Session s, which holds a non-empty transcript
SubscribedToConversation(c, s) ==
  /\ s <= numSessions
  /\ c \in clients[s]
  /\ messageList[s] # <<>>

\* C30: when the handler processes a chat frame without a session id from a
\* client subscribed to a Session S with a non-empty transcript, and the client
\* has a session id or the frame sets newConversation, the user message is
\* appended to a Session other than S, S's transcript is unchanged and the
\* client is no longer among S's subscribers, whether or not S has a session id.
C30_NewConversationIsFresh ==
  [][NewChatHandled =>
       \A s \in Sessions :
         (/\ SubscribedToConversation(lastOp'.c, s)
          /\ (clientSessionId[lastOp'.c] # NoId \/ lastOp'.frame.newConversation))
         => /\ calls'[lastOp'.k].pc # "unused"
            /\ calls'[lastOp'.k].s # s
            /\ messageList'[s] = messageList[s]
            /\ lastOp'.c \notin clients'[s]]_vars

====
